---- MODULE Spec2Model ----
(***************************************************************************)
(* Bulk image import of the wardrobe manager: the in-memory job registry,  *)
(* the FIFO run queue with its single drain loop, the per-item worker and  *)
(* the three HTTP handlers (direct upload, CSV + ZIP, poll).               *)
(*                                                                         *)
(* Node runs handlers and promise continuations one at a time.  A state of *)
(* this model is the program state at a point where the running piece of   *)
(* JavaScript has returned: either control is back in the event loop, or   *)
(* (worker.pc = "loop") a continuation of the drain loop is still pending  *)
(* in the microtask queue and runs before any other handler.               *)
(*                                                                         *)
(* Strings that the code trims, lower-cases or splits at a dot are         *)
(* sequences of one-character strings; the empty sequence is "".           *)
(***************************************************************************)
EXTENDS Integers, Sequences, FiniteSets, TLC

\* ------------------------------------------------------------------ bounds
\* import requests accepted in a run, files of one upload, rows of one CSV,
\* and import requests whose handlers are running at the same time
MaxJobs == 2
MaxFiles == 2
MaxRows == 2
MaxInFlight == 1
\* import requests accepted in a run of the upload-only specification
MaxQueued == 3

\* ----------------------------------------------------------------- strings
RECURSIVE TrimStart(_)
TrimStart(s) == IF s # <<>> /\ Head(s) = " " THEN TrimStart(Tail(s)) ELSE s

RECURSIVE TrimEnd(_)
TrimEnd(s) ==
  IF s # <<>> /\ s[Len(s)] = " " THEN TrimEnd(SubSeq(s, 1, Len(s) - 1)) ELSE s

Trim(s) == TrimEnd(TrimStart(s))

LowerChar(c) ==
  CASE c = "A" -> "a"
    [] c = "B" -> "b"
    [] c = "P" -> "p"
    [] c = "J" -> "j"
    [] c = "Z" -> "z"
    [] OTHER -> c

ToLowerCase(s) == [i \in 1..Len(s) |-> LowerChar(s[i])]

LastIndexOf(s, c) ==
  LET hits == {i \in 1..Len(s) : s[i] = c}
  IN  IF hits = {} THEN 0 ELSE CHOOSE i \in hits : \A k \in hits : k <= i

\* path.basename: the part after the last "/"
BaseName(p) == SubSeq(p, LastIndexOf(p, "/") + 1, Len(p))

\* path.extname: from the last dot of the base name, unless that dot leads it
ExtName(p) ==
  LET b == BaseName(p)
      d == LastIndexOf(b, ".")
  IN  IF d <= 1 THEN <<>> ELSE SubSeq(b, d, Len(b))

\* path.parse(p).name: the base name without its extension
ParseName(p) ==
  LET b == BaseName(p)
  IN  SubSeq(b, 1, Len(b) - Len(ExtName(p)))

\* a || b on strings: the empty string is falsy
OrElse(a, b) == IF a # <<>> THEN a ELSE b

\* ---------------------------------------------------------- undefined values
NoItemId == 0
NoError == "<undefined>"
NoUrl == [kind |-> "none", img |-> 0, source |-> "none", trimmed |-> FALSE]
NoPath == [prefix |-> "none", img |-> 0, ext |-> <<>>]
\* an optional text field (brand, size, material, notes) that is not set
NoText == <<"<undefined>">>

\* ------------------------------------------------------------------ samples
ImportedItem == <<"Imported item">>
ValT == <<"T">>
ValC == <<"C">>
ValR == <<"R">>

\* Uploaded files: the original name and the picture the bytes show.
\* (a list that holds it twice is the same photograph attached twice)
FileA == [originalname |-> <<"a", ".", "p">>, img |-> 1]
UploadFiles == {FileA}

Beach == <<"Beach">>

RECURSIVE SeqsUpTo(_, _)
\* the sequences over S of length 0..n
SeqsUpTo(S, n) ==
  IF n = 0 THEN {<<>>}
  ELSE LET shorter == SeqsUpTo(S, n - 1)
       IN  shorter \cup {Append(q, x) : q \in shorter, x \in S}

\* POST /api/imports bodies: any files with the required fields set and the
\* tags field absent or a single value, and one file with a required field
\* left empty
UploadRequests ==
  { [files |-> fs, type |-> ValT, category |-> ValC, color |-> ValR,
     brand |-> NoText, size |-> NoText, material |-> NoText, notes |-> NoText,
     tags |-> t] :
      fs \in SeqsUpTo(UploadFiles, MaxFiles), t \in {<<>>, Beach} }
  \cup
  { [files |-> <<FileA>>, type |-> f[1], category |-> f[2], color |-> f[3],
     brand |-> NoText, size |-> NoText, material |-> NoText, notes |-> NoText,
     tags |-> <<>>] :
      f \in {<<<<>>, ValC, ValR>>, <<ValT, <<>>, ValR>>, <<ValT, ValC, <<>> >>} }

\* CSV rows as the parser hands them over (an absent column reads as "")
Row(filename, type) ==
  [filename |-> filename, file |-> <<>>, image |-> <<>>, name |-> <<>>,
   type |-> type, category |-> <<>>, color |-> <<>>, brand |-> <<>>,
   size |-> <<>>, material |-> <<>>, notes |-> <<>>, tags |-> <<>>]
SampleRows ==
  { Row(<<" ">>, ValT),                  \* blank filename
    Row(<<"A", ".", "J">>, <<>>),        \* entry a.p in other case and
                                         \* extension; no type of its own
    Row(<<"z">>, ValT) }                 \* not in the archive

\* archive listings (AdmZip entries): name, directory flag, picture
EntryDir == [entryName |-> <<"d", "/">>, isDirectory |-> TRUE, img |-> 0]
EntryA == [entryName |-> <<"d", "/", "a", ".", "p">>, isDirectory |-> FALSE, img |-> 1]
SampleArchives == { <<EntryDir>>, <<EntryDir, EntryA>> }

\* ----------------------------------------------------------- wider samples
\* further uploaded files: another photograph, and a name with two dots
FileB == [originalname |-> <<"b", ".", "p">>, img |-> 2]
FileDots == [originalname |-> <<"c", ".", "d", ".", "p">>, img |-> 3]
WideUploadFiles == {FileA, FileB, FileDots}

\* a tag the catalog holds before any import, and one it does not
Old == <<"Old">>
Sun == <<"Sun">>

\* the optional form fields of a request: all absent, or all sent
OptionalUnset ==
  [brand |-> NoText, size |-> NoText, material |-> NoText, notes |-> NoText]
OptionalSent ==
  [brand |-> <<" ", "B">>, size |-> <<"L">>, material |-> <<"W", " ">>,
   notes |-> <<"O">>]

\* POST /api/imports bodies with distinct files, optional fields and tags
WideUploadRequests ==
  { [files |-> fs, type |-> ValT, category |-> ValC, color |-> ValR,
     brand |-> o.brand, size |-> o.size, material |-> o.material,
     notes |-> o.notes, tags |-> t] :
      fs \in SeqsUpTo(WideUploadFiles, MaxFiles),
      o \in {OptionalUnset, OptionalSent}, t \in {<<>>, Beach, Old} }

\* CSV rows: where the file name stands (filename, file or image column,
\* blank, in other case and extension, unknown to the archive) and which
\* columns the row fills in itself (none, its type, or all of them)
WideRowNames ==
  { <<<<" ">>, <<>>, <<>> >>,
    <<<<" ">>, <<"a", ".", "p">>, <<>> >>,
    <<<<>>, <<" ", "a", ".", "p">>, <<>> >>,
    <<<<>>, <<>>, <<"A", ".", "P">> >>,
    <<<<"A", ".", "J">>, <<>>, <<>> >>,
    <<<<"z">>, <<>>, <<>> >> }
WideRow(names, fills) ==
  [filename |-> names[1], file |-> names[2], image |-> names[3],
   name |-> <<>>,
   type |-> IF fills = "none" THEN <<>> ELSE <<" ", "U">>,
   category |-> IF fills = "all" THEN <<"K">> ELSE <<>>,
   color |-> IF fills = "all" THEN <<"G", " ">> ELSE <<>>,
   brand |-> IF fills = "all" THEN <<"X", " ">> ELSE <<>>,
   size |-> IF fills = "all" THEN <<"S">> ELSE <<>>,
   material |-> IF fills = "all" THEN <<" ", "M">> ELSE <<>>,
   notes |-> IF fills = "all" THEN <<"N">> ELSE <<>>,
   tags |-> IF fills = "all" THEN <<"Beach", ",", " ", "Sun", ",", "Beach">>
            ELSE <<>>]
WideRows ==
  { WideRow(names, fills) : names \in WideRowNames,
                            fills \in {"none", "type", "all"} }

\* archives: one file in a folder; and two files of one base name, the
\* first of which differs from the second in its extension
EntryJ == [entryName |-> <<"A", ".", "j">>, isDirectory |-> FALSE, img |-> 2]
WideArchives == { <<EntryDir, EntryA>>, <<EntryJ, EntryA>> }

\* the message of the exception a rejected persistence call carries
PrismaError == "Invalid prisma invocation"
\* the messages of the exceptions the image stages meet
SegmentationError == "Background removal: segmentation failed"
SharpError == "Input file contains unsupported image format"
\* how an awaited stage of the image pipeline ends
StageOutcomes == {"ok", "throws"}

\* ------------------------------------------------------------------- state
VARIABLES
  importJobs,          \* the registry: job id (1, 2, ...) -> ImportJob
  importQueue,         \* the FIFO run queue of job ids
  importQueueRunning,  \* the drain loop's "already running" flag
  worker,              \* where the drain loop is suspended, and its locals
  upload,              \* the POST /api/imports request being received
  csv,                 \* the POST /api/imports/csv request in flight
  catalog,             \* item rows of the persistence collaborator
  tagRows,             \* tag rows of the persistence collaborator (id = index)
  response,            \* the last HTTP response sent
  bgRemovalEnabled,    \* BACKGROUND_REMOVAL_ENABLED, read once from the environment
  tagCreateCalls       \* the calls of tag.create so far: job and name, in order

vars == <<importJobs, importQueue, importQueueRunning, worker, upload, csv,
          catalog, tagRows, response, bgRemovalEnabled, tagCreateCalls>>

\* ------------------------------------------------------------ serialization
\* serializeImportJob: the job with filePath and payload dropped from items
SerializeItemWithInternals(item) == item
SerializeItem(item) ==
  [id |-> item.id, filename |-> item.filename, status |-> item.status,
   itemId |-> item.itemId, imageUrl |-> item.imageUrl, error |-> item.error]

serializeImportJob(job) ==
  [job EXCEPT !.items = [i \in 1..Len(job.items) |-> SerializeItem(job.items[i])]]

\* a response: status code, error body or job body, and (for GET
\* /api/imports/:id) the id the request asked for
NoResponse == [code |-> 0, error |-> "", job |-> <<>>, polled |-> 0]
JsonError(code, msg) == [code |-> code, error |-> msg, job |-> <<>>, polled |-> 0]
JsonJob(job) ==
  [code |-> 200, error |-> "", job |-> <<serializeImportJob(job)>>, polled |-> 0]

\* ------------------------------------------------------------ the worker
IdleWorker ==
  [pc |-> "idle", job |-> 0, item |-> 0, imageUrl |-> NoUrl,
   tagCache |-> {}, toCreate |-> <<>>]

\* the test that makes the item loop pass over an entry
IsSkippedNever(item) == FALSE
IsSkippedOrFirst(item) == item.status = "failed" \/ item.id = 1
IsSkipped(item) == item.status = "failed"

\* the catch block of the item loop
MarkFailedTwice(job, i, msg) ==
  [job EXCEPT !.items[i].status = "failed",
              !.items[i].error = msg,
              !.failed = @ + 2]
MarkFailed(job, i, msg) ==
  [job EXCEPT !.items[i].status = "failed",
              !.items[i].error = msg,
              !.failed = @ + 1]

\* the success tail of the try block
MarkCompletedDropsFailed(job, i, id, url) ==
  [job EXCEPT !.items[i].status = "completed",
              !.items[i].itemId = id,
              !.items[i].imageUrl = url,
              !.completed = @ + 1,
              !.failed = 0]
MarkCompleted(job, i, id, url) ==
  [job EXCEPT !.items[i].status = "completed",
              !.items[i].itemId = id,
              !.items[i].imageUrl = url,
              !.completed = @ + 1]

\* The item loop of processImportJob from position i up to its next await:
\* it passes over failed entries, fails entries without a file, and either
\* stops at entry `at` (now processing, awaiting the image pipeline) or runs
\* off the end and completes the job (at = 0).
RECURSIVE ItemLoop(_, _)
ItemLoop(job, i) ==
  IF i > Len(job.items)
  THEN [job |-> [job EXCEPT !.status = "completed"], at |-> 0]
  ELSE IF IsSkipped(job.items[i])
  THEN ItemLoop(job, i + 1)
  ELSE IF job.items[i].filePath = NoPath
  THEN ItemLoop(MarkFailed(job, i, "Missing file for import."), i + 1)
  ELSE [job |-> [job EXCEPT !.items[i].status = "processing"], at |-> i]

\* the worker once the item loop has run from position i of job id
WorkerAfterLoop(id, r, cache) ==
  IF r.at = 0
  THEN [IdleWorker EXCEPT !.pc = "loop"]
  ELSE [IdleWorker EXCEPT !.pc = "image", !.job = id, !.item = r.at,
                          !.tagCache = cache]

\* what the item loop does after the catch block of entry i: the next entry
ContinueAfterCatchAborts(job, i) ==
  [job |-> [job EXCEPT !.status = "completed"], at |-> 0]
ContinueAfterCatchRetries(job, i) ==
  ItemLoop([job EXCEPT !.items[i].status = "queued"], i)
ContinueAfterCatch(job, i) == ItemLoop(job, i + 1)

\* importQueue.shift(): the queue without its head
ShiftKeepsHead(q) == q
Shift(q) == Tail(q)

\* the flag the drain loop leaves behind when it finds the queue empty
FlagAfterDrainStuck == TRUE
FlagAfterDrain == FALSE

\* runImportQueue from its while test up to its next await: either the queue
\* is empty and the loop ends, or the head job is taken and processImportJob
\* runs up to its first await.  (Every queued id is a registered job, so the
\* two `continue` guards of the loop never fire.)
DrainLoopFlagEarly(jobs, queue) ==
  IF queue = <<>>
  THEN [jobs |-> jobs, queue |-> queue, running |-> FlagAfterDrain,
        worker |-> IdleWorker]
  ELSE LET id == Head(queue)
           r == ItemLoop([jobs[id] EXCEPT !.status = "processing"], 1)
       IN  [jobs |-> [jobs EXCEPT ![id] = r.job], queue |-> Shift(queue),
            running |-> Shift(queue) # <<>>,
            worker |-> WorkerAfterLoop(id, r, {})]
DrainLoopTakesLast(jobs, queue) ==
  IF queue = <<>>
  THEN [jobs |-> jobs, queue |-> queue, running |-> FlagAfterDrain,
        worker |-> IdleWorker]
  ELSE LET id == queue[Len(queue)]
           r == ItemLoop([jobs[id] EXCEPT !.status = "processing"], 1)
       IN  [jobs |-> [jobs EXCEPT ![id] = r.job],
            queue |-> SubSeq(queue, 1, Len(queue) - 1),
            running |-> TRUE, worker |-> WorkerAfterLoop(id, r, {})]
DrainLoop(jobs, queue) ==
  IF queue = <<>>
  THEN [jobs |-> jobs, queue |-> queue, running |-> FlagAfterDrain,
        worker |-> IdleWorker]
  ELSE LET id == Head(queue)
           r == ItemLoop([jobs[id] EXCEPT !.status = "processing"], 1)
       IN  [jobs |-> [jobs EXCEPT ![id] = r.job], queue |-> Shift(queue),
            running |-> TRUE, worker |-> WorkerAfterLoop(id, r, {})]

\* enqueueImportJob: register, push, and start the drain loop unless one runs
enqueueImportJobUnguarded(job) ==
  DrainLoop(Append(importJobs, job), Append(importQueue, job.id))
enqueueImportJob(job) ==
  LET jobs == Append(importJobs, job)
      queue == Append(importQueue, job.id)
  IN  IF importQueueRunning
      THEN [jobs |-> jobs, queue |-> queue, running |-> TRUE, worker |-> worker]
      ELSE DrainLoop(jobs, queue)

\* the state after enqueueImportJob(job) and the response res.json(snapshot)
Enqueued(job) ==
  LET e == enqueueImportJob(job)
  IN  /\ importJobs' = e.jobs
      /\ importQueue' = e.queue
      /\ importQueueRunning' = e.running
      /\ worker' = e.worker
      /\ response' = JsonJob(e.jobs[job.id])

\* ------------------------------------------------------- the image pipeline
\* An image URL names the picture it shows (img), the file it is (kind:
\* original, cutout, standard), the file a standard image was made from
\* (source) and whether its transparent borders were trimmed.  A stage
\* answers [error, url]: error is the message it throws with, or NoError.
Returned(url) == [error |-> NoError, url |-> url]
Thrown(msg) == [error |-> msg, url |-> NoUrl]

\* removeBackgroundFromFile: null (NoUrl) when the feature is off; otherwise
\* the cut-out written next to the file, or null when anything inside throws
removeBackgroundFromFileRethrows(filePath, enabled, bg) ==
  IF ~enabled THEN Returned(NoUrl)
  ELSE IF bg = "throws" THEN Thrown(SegmentationError)
  ELSE Returned([kind |-> "cutout", img |-> filePath.img, source |-> "cutout",
                 trimmed |-> FALSE])
removeBackgroundFromFile(filePath, enabled, bg) ==
  IF ~enabled THEN Returned(NoUrl)
  ELSE IF bg = "throws" THEN Returned(NoUrl)
  ELSE Returned([kind |-> "cutout", img |-> filePath.img, source |-> "cutout",
                 trimmed |-> FALSE])

\* standardizeImage: the composited canvas of the source, or the exception
standardizeImage(sourceUrl, trimTransparent, std) ==
  IF std = "throws" THEN Thrown(SharpError)
  ELSE Returned([kind |-> "standard", img |-> sourceUrl.img,
                 source |-> sourceUrl.kind, trimmed |-> trimTransparent])

\* processUploadedImage: background removal, then standardization of the
\* cut-out (trimmed) or of the original; a failure of standardizeImage is
\* caught and answered with the source URL
processUploadedImageRethrows(filePath, enabled, bg, std) ==
  LET originalUrl == [kind |-> "original", img |-> filePath.img,
                      source |-> "original", trimmed |-> FALSE]
      cut == removeBackgroundFromFile(filePath, enabled, bg)
      sourceUrl == IF cut.url # NoUrl THEN cut.url ELSE originalUrl
  IN  IF cut.error # NoError THEN cut
      ELSE standardizeImage(sourceUrl, cut.url # NoUrl, std)
processUploadedImage(filePath, enabled, bg, std) ==
  LET originalUrl == [kind |-> "original", img |-> filePath.img,
                      source |-> "original", trimmed |-> FALSE]
      cut == removeBackgroundFromFile(filePath, enabled, bg)
      sourceUrl == IF cut.url # NoUrl THEN cut.url ELSE originalUrl
      standard == standardizeImage(sourceUrl, cut.url # NoUrl, std)
  IN  IF cut.error # NoError THEN cut
      ELSE IF standard.error # NoError THEN Returned(sourceUrl)
      ELSE standard

\* ----------------------------------------------------------- tag resolution
HexChars == {"0", "1", "2", "3", "4", "5", "6", "7", "8", "9",
             "a", "b", "c", "d", "e", "f", "A", "B", "C", "D", "E", "F"}

\* /^[0-9a-f]{8}-[0-9a-f]{4}-[0-9a-f]{4}-[0-9a-f]{4}-[0-9a-f]{12}$/i
UuidLike(s) ==
  /\ Len(s) = 36
  /\ \A i \in 1..36 :
        IF i \in {9, 14, 19, 24} THEN s[i] = "-" ELSE s[i] \in HexChars

RECURSIVE SelectNames(_, _, _)
\* names.filter(keep) without repeats, in order (Array.from(new Set(...)))
SelectNames(names, keep, seen) ==
  IF names = <<>> THEN <<>>
  ELSE IF Head(names) \in keep /\ Head(names) \notin seen
  THEN <<Head(names)>> \o SelectNames(Tail(names), keep, seen \cup {Head(names)})
  ELSE SelectNames(Tail(names), keep, seen)

RangeOf(s) == {s[i] : i \in 1..Len(s)}

\* names.map(trim).filter(Boolean)
TrimmedNames(names) ==
  LET t == [i \in 1..Len(names) |-> Trim(names[i])]
  IN  SelectSeq(t, LAMBDA n : n # <<>>)

CacheHas(cache, key) == \E e \in cache : e.key = key
CacheGet(cache, key) == (CHOOSE e \in cache : e.key = key).id
CacheSet(cache, key, id) == {e \in cache : e.key # key} \cup {[key |-> key, id |-> id]}

\* the names still to look up: not cached and not shaped like an identifier
MissingNames(names, cache) ==
  LET t == TrimmedNames(names)
  IN  SelectNames(t, {n \in RangeOf(t) : ~CacheHas(cache, n) /\ ~UuidLike(n)}, {})

\* the final map through the cache, dropping tokens it does not hold
ResolvedTagIds(names, cache) ==
  LET t == SelectSeq(TrimmedNames(names), LAMBDA n : CacheHas(cache, n))
  IN  [i \in 1..Len(t) |-> CacheGet(cache, t[i])]

\* tag.findMany by name / by id over the tag rows
TagIdsNamed(name) == {i \in 1..Len(tagRows) : tagRows[i] = name}

RECURSIVE CacheExisting(_, _)
CacheExisting(cache, names) ==
  IF names = <<>> THEN cache
  ELSE LET hit == TagIdsNamed(Head(names))
       IN  CacheExisting(
             IF hit = {} THEN cache
             ELSE CacheSet(cache, Head(names), CHOOSE i \in hit : TRUE),
             Tail(names))

\* the missing names that the rows found by name do not cover
NamesToCreateAll(missing) == missing
NamesToCreate(missing) == SelectSeq(missing, LAMBDA n : TagIdsNamed(n) = {})

\* where resolveTagIds suspends first, given the entry's tokens and the cache
\* (no sample token has the identifier shape, so the by-id query is not made)
TagsEntryPc(names, cache) ==
  IF TrimmedNames(names) = <<>> THEN "create"
  ELSE IF MissingNames(names, cache) # <<>> THEN "tagByName"
  ELSE "create"

\* ------------------------------------------------------------ worker steps
CurJob == importJobs[worker.job]
CurItem == CurJob.items[worker.item]
EventLoop == worker.pc # "loop"

\* the catch block: fail the entry, then carry on with the item loop
CatchAfterInsert(msg) ==
  LET r == ContinueAfterCatch(MarkFailed(CurJob, worker.item, msg), worker.item)
  IN  /\ importJobs' = [importJobs EXCEPT ![worker.job] = r.job]
      /\ worker' = WorkerAfterLoop(worker.job, r, worker.tagCache)
      /\ catalog' = Append(catalog, [name |-> CurItem.payload.name])
      /\ UNCHANGED <<importQueue, importQueueRunning, upload, csv,
                     tagRows, response, bgRemovalEnabled, tagCreateCalls>>
Catch(msg) ==
  LET r == ContinueAfterCatch(MarkFailed(CurJob, worker.item, msg), worker.item)
  IN  /\ importJobs' = [importJobs EXCEPT ![worker.job] = r.job]
      /\ worker' = WorkerAfterLoop(worker.job, r, worker.tagCache)
      /\ UNCHANGED <<importQueue, importQueueRunning, upload, csv, catalog,
                     tagRows, response, bgRemovalEnabled, tagCreateCalls>>

\* await processUploadedImage(...) returns and resolveTagIds starts, or it
\* throws into the catch block
WorkerImageDone ==
  /\ worker.pc = "image"
  /\ \E bg \in StageOutcomes, std \in StageOutcomes :
       LET r == processUploadedImage(CurItem.filePath, bgRemovalEnabled, bg, std)
       IN  IF r.error # NoError
           THEN Catch(r.error)
           ELSE /\ worker' = [worker EXCEPT
                                !.imageUrl = r.url,
                                !.pc = TagsEntryPc(CurItem.payload.tags,
                                                   worker.tagCache)]
                /\ UNCHANGED <<importJobs, importQueue, importQueueRunning,
                               upload, csv, catalog, tagRows, response,
                               bgRemovalEnabled, tagCreateCalls>>

\* a call tag.create({name}) made while the worker runs its current job
TagCall(name) == [job |-> worker.job, name |-> name]

\* tag.findMany({name in missing}) returns: existing rows are cached by name
WorkerTagsByName ==
  /\ worker.pc = "tagByName"
  /\ LET missing == MissingNames(CurItem.payload.tags, worker.tagCache)
         cache == CacheExisting(worker.tagCache, missing)
         create == NamesToCreate(missing)
     IN  /\ worker' = [worker EXCEPT
                          !.tagCache = cache,
                          !.toCreate = create,
                          !.pc = IF create = <<>> THEN "create" ELSE "tagCreate"]
         /\ tagCreateCalls' = IF create = <<>> THEN tagCreateCalls
                              ELSE Append(tagCreateCalls, TagCall(Head(create)))
  /\ UNCHANGED <<importJobs, importQueue, importQueueRunning, upload, csv,
                 catalog, tagRows, response, bgRemovalEnabled>>

\* tag.create({name}) returns: the new row is cached by name
WorkerTagCreated ==
  /\ worker.pc = "tagCreate"
  /\ tagRows' = Append(tagRows, Head(worker.toCreate))
  /\ worker' = [worker EXCEPT
                  !.tagCache = CacheSet(@, Head(worker.toCreate), Len(tagRows) + 1),
                  !.toCreate = Tail(@),
                  !.pc = IF Tail(worker.toCreate) = <<>> THEN "create"
                         ELSE "tagCreate"]
  /\ tagCreateCalls' = IF Tail(worker.toCreate) = <<>> THEN tagCreateCalls
                       ELSE Append(tagCreateCalls,
                                   TagCall(Head(Tail(worker.toCreate))))
  /\ UNCHANGED <<importJobs, importQueue, importQueueRunning, upload, csv,
                 catalog, response, bgRemovalEnabled>>

\* any of the awaited tag calls throws
WorkerTagsThrow ==
  /\ worker.pc \in {"tagByName", "tagCreate"}
  /\ Catch(PrismaError)

\* item.create(...) returns the new row
WorkerItemCreated ==
  /\ worker.pc = "create"
  /\ LET p == CurItem.payload
         row == [name |-> p.name, type |-> p.type, category |-> p.category,
                 color |-> p.color, imageUrl |-> worker.imageUrl,
                 brand |-> p.brand, size |-> p.size, material |-> p.material,
                 notes |-> p.notes,
                 tags |-> ResolvedTagIds(p.tags, worker.tagCache)]
         id == Len(catalog) + 1
         r == ItemLoop(MarkCompleted(CurJob, worker.item, id, worker.imageUrl),
                       worker.item + 1)
     IN  /\ catalog' = Append(catalog, row)
         /\ importJobs' = [importJobs EXCEPT ![worker.job] = r.job]
         /\ worker' = WorkerAfterLoop(worker.job, r, worker.tagCache)
  /\ UNCHANGED <<importQueue, importQueueRunning, upload, csv, tagRows,
                 response,
                 bgRemovalEnabled, tagCreateCalls>>

\* item.create(...) throws
WorkerItemCreateThrows ==
  /\ worker.pc = "create"
  /\ Catch(PrismaError)

\* await processImportJob(job) resumes the drain loop at its while test
WorkerLoop ==
  /\ worker.pc = "loop"
  /\ LET d == DrainLoop(importJobs, importQueue)
     IN  /\ importJobs' = d.jobs
         /\ importQueue' = d.queue
         /\ importQueueRunning' = d.running
         /\ worker' = d.worker
  /\ UNCHANGED <<upload, csv, catalog, tagRows, response,
                 bgRemovalEnabled, tagCreateCalls>>

\* ------------------------------------------------------- POST /api/imports
NoUpload == [pc |-> "none", req |-> [files |-> <<>>, type |-> <<>>,
             category |-> <<>>, color |-> <<>>, brand |-> NoText,
             size |-> NoText, material |-> NoText, notes |-> NoText,
             tags |-> <<>>]]

\* import requests whose handler has not returned yet
InFlight ==
  (IF upload.pc = "none" THEN 0 ELSE 1) + (IF csv.pc = "none" THEN 0 ELSE 1)

\* a further import request is received only within the model's bounds
Admitted == Len(importJobs) + InFlight < MaxJobs /\ InFlight < MaxInFlight

\* the tags form field: absent, a JSON array, or a single value
\* (of the arrays only "[]" is parsed here; a "[" that JSON.parse rejects
\* falls back to the single value, as the catch does)
ParseTagsField(tags) ==
  IF tags = <<>> THEN <<>>
  ELSE IF tags = <<"[", "]">> THEN <<>>
  ELSE <<tags>>

\* the validation of the handler: the error it answers, or "" to go on
UploadRejectionLax(req) ==
  IF req.files = <<>> THEN "No images uploaded"
  ELSE IF req.type = <<>> /\ req.category = <<>> /\ req.color = <<>>
  THEN "Type, category, and color are required"
  ELSE ""
UploadRejection(req) ==
  IF req.files = <<>> THEN "No images uploaded"
  ELSE IF req.type = <<>> \/ req.category = <<>> \/ req.color = <<>>
  THEN "Type, category, and color are required"
  ELSE ""

\* path.parse(file.originalname).name || "Imported item"
ItemNameKeepsExt(originalname) == OrElse(BaseName(originalname), ImportedItem)
ItemName(originalname) == OrElse(ParseName(originalname), ImportedItem)

\* the job object the handler builds from the uploaded files
UploadJob(req, id) ==
  LET tags == ParseTagsField(req.tags)
      item(i) ==
        LET file == req.files[i]
        IN  [id |-> i, filename |-> file.originalname, status |-> "queued",
             itemId |-> NoItemId, imageUrl |-> NoUrl, error |-> NoError,
             filePath |-> [prefix |-> "item", img |-> file.img,
                           ext |-> ExtName(file.originalname)],
             payload |-> [name |-> ItemName(file.originalname),
                          type |-> req.type, category |-> req.category,
                          color |-> req.color, brand |-> req.brand,
                          size |-> req.size, material |-> req.material,
                          notes |-> req.notes, tags |-> tags]]
  IN  [id |-> id, status |-> "queued", total |-> Len(req.files),
       completed |-> 0, failed |-> 0,
       items |-> [i \in 1..Len(req.files) |-> item(i)],
       defaults |-> [type |-> req.type, category |-> req.category,
                     color |-> req.color, brand |-> req.brand,
                     size |-> req.size, material |-> req.material,
                     notes |-> req.notes, tags |-> tags]]

\* a multipart request is received (multer stores its files)
UploadArrives ==
  /\ EventLoop
  /\ upload.pc = "none"
  /\ Admitted
  /\ \E req \in UploadRequests : upload' = [pc |-> "received", req |-> req]
  /\ UNCHANGED <<importJobs, importQueue, importQueueRunning, worker, csv,
                 catalog, tagRows, response,
                 bgRemovalEnabled, tagCreateCalls>>

\* the only import request of a run is received
FirstRequest == Len(importJobs) = 0 /\ InFlight = 0

UploadArrivesWide ==
  /\ EventLoop
  /\ FirstRequest
  /\ \E req \in WideUploadRequests : upload' = [pc |-> "received", req |-> req]
  /\ UNCHANGED <<importJobs, importQueue, importQueueRunning, worker, csv,
                 catalog, tagRows, response, bgRemovalEnabled, tagCreateCalls>>

\* a multipart request is received while fewer than MaxQueued were
UploadArrivesQueued ==
  /\ EventLoop
  /\ upload.pc = "none"
  /\ Len(importJobs) + InFlight < MaxQueued
  /\ \E req \in UploadRequests : upload' = [pc |-> "received", req |-> req]
  /\ UNCHANGED <<importJobs, importQueue, importQueueRunning, worker, csv,
                 catalog, tagRows, response, bgRemovalEnabled, tagCreateCalls>>

\* the handler answers 400 and returns
UploadRejected ==
  /\ EventLoop
  /\ upload.pc = "received"
  /\ UploadRejection(upload.req) # ""
  /\ response' = JsonError(400, UploadRejection(upload.req))
  /\ upload' = NoUpload
  /\ UNCHANGED <<importJobs, importQueue, importQueueRunning, worker, csv,
                 catalog, tagRows,
                 bgRemovalEnabled, tagCreateCalls>>

\* the handler builds the job, enqueues it and answers its snapshot
UploadAccepted ==
  /\ EventLoop
  /\ upload.pc = "received"
  /\ UploadRejection(upload.req) = ""
  /\ Enqueued(UploadJob(upload.req, Len(importJobs) + 1))
  /\ upload' = NoUpload
  /\ UNCHANGED <<csv, catalog, tagRows,
                 bgRemovalEnabled, tagCreateCalls>>

\* ---------------------------------------------------- POST /api/imports/csv
NoCsv ==
  [pc |-> "none", csvFile |-> FALSE, zipFile |-> FALSE,
   defaults |-> [type |-> <<>>, category |-> <<>>, color |-> <<>>,
                 brand |-> NoText, size |-> NoText, material |-> NoText,
                 notes |-> NoText, tags |-> <<>>],
   parsed |-> "none", rows |-> <<>>, entries |-> <<>>, index |-> 0,
   items |-> <<>>, failed |-> 0]

RECURSIVE SplitComma(_)
\* s.split(",")
SplitComma(s) ==
  LET c == {i \in 1..Len(s) : s[i] = ","}
  IN  IF c = {} THEN <<s>>
      ELSE LET i == CHOOSE k \in c : \A m \in c : k <= m
           IN  <<SubSeq(s, 1, i - 1)>> \o SplitComma(SubSeq(s, i + 1, Len(s)))

\* zip.getEntries().filter(entry => !entry.isDirectory)
FileEntries(entries) == SelectSeq(entries, LAMBDA e : ~e.isDirectory)

\* the keys of entryByName and entryByBase
NameKey(entryName) == ToLowerCase(BaseName(entryName))
BaseKey(entryName) == ToLowerCase(ParseName(BaseName(entryName)))

\* Math.min of a non-empty set of positions; 0 for the empty set
FirstOf(hits) ==
  IF hits = {} THEN 0 ELSE CHOOSE i \in hits : \A k \in hits : i <= k

\* entryByName.get / entryByBase.get: the first entry under a key wins
EntryByName(entries, key) ==
  FirstOf({i \in 1..Len(entries) : NameKey(entries[i].entryName) = key})
EntryByBase(entries, key) ==
  FirstOf({i \in 1..Len(entries) : BaseKey(entries[i].entryName) = key})

\* entryByName.get(lower(filename)) || entryByBase.get(lower(name of filename))
MatchEntryByNameOnly(entries, filename) ==
  EntryByName(entries, ToLowerCase(filename))
MatchEntry(entries, filename) ==
  IF EntryByName(entries, ToLowerCase(filename)) # 0
  THEN EntryByName(entries, ToLowerCase(filename))
  ELSE EntryByBase(entries, ToLowerCase(ParseName(filename)))

\* the per-row resolution (index counts from 0 as in the code)
RowFilenameAnyColumn(row) ==
  OrElse(Trim(row.filename), OrElse(Trim(row.file), Trim(row.image)))
RowFilename(row) == Trim(OrElse(row.filename, OrElse(row.file, row.image)))
\* (row.field || "").trim() || defaults.field
ResolveFieldDefaultFirst(value, fallback) ==
  IF fallback # <<>> /\ fallback # NoText THEN fallback ELSE Trim(value)
ResolveField(value, fallback) == OrElse(Trim(value), fallback)

RowPayload(row, index, defaults) ==
  LET filename == RowFilename(row)
  IN  [name |-> OrElse(Trim(row.name),
                  OrElse(IF filename # <<>> THEN ParseName(filename) ELSE <<>>,
                         <<"Imported item ", ToString(index + 1)>>)),
       type |-> ResolveField(row.type, defaults.type),
       category |-> ResolveField(row.category, defaults.category),
       color |-> ResolveField(row.color, defaults.color),
       brand |-> ResolveField(row.brand, defaults.brand),
       size |-> ResolveField(row.size, defaults.size),
       material |-> ResolveField(row.material, defaults.material),
       notes |-> ResolveField(row.notes, defaults.notes),
       tags |-> IF Trim(row.tags) # <<>>
                THEN TrimmedNames(SplitComma(row.tags))
                ELSE defaults.tags]

\* the error that pre-fails the row, or NoError
RowErrorUnset(row, index, defaults, entries) == NoError
RowErrorLookupFirst(row, index, defaults, entries) ==
  LET filename == RowFilename(row)
      p == RowPayload(row, index, defaults)
  IN  IF filename = <<>> THEN "Missing filename in CSV."
      ELSE IF MatchEntry(entries, filename) = 0 THEN "File not found in ZIP."
      ELSE IF p.type = <<>> \/ p.category = <<>> \/ p.color = <<>>
      THEN "Missing type, category, or color for this row."
      ELSE NoError
RowError(row, index, defaults, entries) ==
  LET filename == RowFilename(row)
      p == RowPayload(row, index, defaults)
  IN  IF filename = <<>> THEN "Missing filename in CSV."
      ELSE IF p.type = <<>> \/ p.category = <<>> \/ p.color = <<>>
      THEN "Missing type, category, or color for this row."
      ELSE IF MatchEntry(entries, filename) = 0 THEN "File not found in ZIP."
      ELSE NoError

\* the item pushed for the row; filePath is the file written for a match
RowItem(row, index, defaults, entries) ==
  LET filename == RowFilename(row)
      p == RowPayload(row, index, defaults)
      err == RowError(row, index, defaults, entries)
      failed == filename = <<>>
                  \/ p.type = <<>> \/ p.category = <<>> \/ p.color = <<>>
                  \/ MatchEntry(entries, filename) = 0
      match == entries[MatchEntry(entries, filename)]
  IN  [id |-> index + 1, filename |-> OrElse(filename, p.name),
       status |-> IF failed THEN "failed" ELSE "queued",
       itemId |-> NoItemId, imageUrl |-> NoUrl, error |-> err,
       filePath |-> IF failed THEN NoPath
                    ELSE [prefix |-> "import", img |-> match.img,
                          ext |-> ToLowerCase(OrElse(ExtName(match.entryName),
                                                     <<".", "j", "p", "g">>))],
       payload |-> p]

\* a row that failed resolution: counted, pushed, and on to the next row
PushFailedUncounted(c, it) ==
  [c EXCEPT !.items = Append(@, it), !.index = @ + 1]
PushFailed(c, it) ==
  [c EXCEPT !.items = Append(@, it), !.failed = @ + 1, !.index = @ + 1]

\* The row loop from row `index` up to its next await: rows that fail are
\* pushed at once; a matched row suspends at writeFile (wait = TRUE) and is
\* pushed when the write returns.
RECURSIVE RowLoop(_)
RowLoop(c) ==
  IF c.index >= Len(c.rows) THEN [c |-> c, wait |-> FALSE]
  ELSE LET it == RowItem(c.rows[c.index + 1], c.index, c.defaults, c.entries)
       IN  IF it.status = "failed"
           THEN RowLoop(PushFailed(c, it))
           ELSE [c |-> c, wait |-> TRUE]

\* the job object built after the row loop
CsvJobTotalQueued(c, id) ==
  [id |-> id, status |-> "queued", total |-> Len(c.items) - c.failed,
   completed |-> 0, failed |-> c.failed, items |-> c.items,
   defaults |-> c.defaults]
CsvJobFailedUncounted(c, id) ==
  [id |-> id, status |-> "queued", total |-> Len(c.items),
   completed |-> 0, failed |-> 0, items |-> c.items,
   defaults |-> c.defaults]
CsvJob(c, id) ==
  [id |-> id, status |-> "queued", total |-> Len(c.items),
   completed |-> 0, failed |-> c.failed, items |-> c.items,
   defaults |-> c.defaults]

\* after the row loop has run: suspend at a write, or enqueue, answer the
\* snapshot and enter the finally block
CsvAfterLoop(r) ==
  IF r.wait
  THEN /\ csv' = [r.c EXCEPT !.pc = "write"]
       /\ UNCHANGED <<importJobs, importQueue, importQueueRunning, worker,
                      response>>
  ELSE /\ Enqueued(CsvJob(r.c, Len(importJobs) + 1))
       /\ csv' = [r.c EXCEPT !.pc = "rmCsv"]

\* a multipart request is received with both files or with neither (multer
\* stores the files it came with: csvFile and zipFile say which temporary
\* files of the latest request the storage area holds); of the defaults the
\* request carries type, category and color
CsvArrives ==
  /\ EventLoop
  /\ csv.pc = "none"
  /\ Admitted
  /\ \E files \in BOOLEAN, type \in {<<>>, <<" ", "T">>} :
       csv' = [NoCsv EXCEPT
                 !.pc = "received", !.csvFile = files, !.zipFile = files,
                 !.defaults = [type |-> Trim(type), category |-> Trim(ValC),
                               color |-> Trim(ValR), brand |-> NoText,
                               size |-> NoText, material |-> NoText,
                               notes |-> NoText, tags |-> <<>>]]
  /\ UNCHANGED <<importJobs, importQueue, importQueueRunning, worker, upload,
                 catalog, tagRows, response,
                 bgRemovalEnabled, tagCreateCalls>>

\* typeof field === "string" ? field.trim() : undefined
TrimOptional(field) == IF field = NoText THEN NoText ELSE Trim(field)

\* the same with both files attached, the type sent or not, and the optional
\* fields sent or not
CsvArrivesWide ==
  /\ EventLoop
  /\ FirstRequest
  /\ \E type \in {<<>>, <<" ", "T">>}, o \in {OptionalUnset, OptionalSent} :
       csv' = [NoCsv EXCEPT
                 !.pc = "received", !.csvFile = TRUE, !.zipFile = TRUE,
                 !.defaults = [type |-> Trim(type), category |-> Trim(ValC),
                               color |-> Trim(ValR),
                               brand |-> TrimOptional(o.brand),
                               size |-> TrimOptional(o.size),
                               material |-> TrimOptional(o.material),
                               notes |-> TrimOptional(o.notes),
                               tags |-> <<>>]]
  /\ UNCHANGED <<importJobs, importQueue, importQueueRunning, worker, upload,
                 catalog, tagRows, response, bgRemovalEnabled, tagCreateCalls>>

\* a first request is received with any of the two files; of the defaults it
\* carries the type or not
CsvArrivesAnyFiles ==
  /\ EventLoop
  /\ FirstRequest
  /\ ~csv.csvFile /\ ~csv.zipFile
  /\ \E hasCsv \in BOOLEAN, hasZip \in BOOLEAN, type \in {<<>>, <<" ", "T">>} :
       csv' = [NoCsv EXCEPT
                 !.pc = "received", !.csvFile = hasCsv, !.zipFile = hasZip,
                 !.defaults = [type |-> Trim(type), category |-> Trim(ValC),
                               color |-> Trim(ValR), brand |-> NoText,
                               size |-> NoText, material |-> NoText,
                               notes |-> NoText, tags |-> <<>>]]
  /\ UNCHANGED <<importJobs, importQueue, importQueueRunning, worker, upload,
                 catalog, tagRows, response, bgRemovalEnabled, tagCreateCalls>>

\* the handler starts: without both files it answers 400 and returns (before
\* the try block, so that nothing is removed), otherwise it suspends at
\* readFile
CsvStart ==
  /\ EventLoop
  /\ csv.pc = "received"
  /\ IF csv.csvFile /\ csv.zipFile
     THEN /\ csv' = [csv EXCEPT !.pc = "read"]
          /\ UNCHANGED response
     ELSE /\ csv' = [NoCsv EXCEPT !.csvFile = csv.csvFile,
                                  !.zipFile = csv.zipFile]
          /\ response' = JsonError(400, "CSV and ZIP files are required")
  /\ UNCHANGED <<importJobs, importQueue, importQueueRunning, worker, upload,
                 catalog, tagRows,
                 bgRemovalEnabled, tagCreateCalls>>

\* readFile returns; the CSV is parsed and, if it has rows, the archive is
\* listed.  The request is rejected, or the row loop starts.
CsvReadOf(Rows, Archives) ==
  /\ EventLoop
  /\ csv.pc = "read"
  /\ \/ /\ csv' = [csv EXCEPT !.pc = "rmCsv", !.parsed = "errors"]
        /\ response' = JsonError(400, "CSV parse failed")
        /\ UNCHANGED <<importJobs, importQueue, importQueueRunning, worker>>
     \/ /\ csv' = [csv EXCEPT !.pc = "rmCsv", !.parsed = "ok"]
        /\ response' = JsonError(400, "CSV contains no data rows")
        /\ UNCHANGED <<importJobs, importQueue, importQueueRunning, worker>>
     \/ \E rows \in SeqsUpTo(Rows, MaxRows) \ {<<>>}, archive \in Archives :
          LET c == [csv EXCEPT !.parsed = "ok", !.rows = rows,
                               !.entries = FileEntries(archive)]
          IN  IF c.entries = <<>>
              THEN /\ csv' = [c EXCEPT !.pc = "rmCsv"]
                   /\ response' = JsonError(400, "ZIP contains no files")
                   /\ UNCHANGED <<importJobs, importQueue, importQueueRunning,
                                  worker>>
              ELSE CsvAfterLoop(RowLoop(c))
  /\ UNCHANGED <<upload, catalog, tagRows,
                 bgRemovalEnabled, tagCreateCalls>>

CsvRead == CsvReadOf(SampleRows, SampleArchives)
CsvReadWide == CsvReadOf(WideRows, WideArchives)

\* writeFile returns: the row's item is pushed and the row loop goes on
CsvFileWritten ==
  /\ EventLoop
  /\ csv.pc = "write"
  /\ LET it == RowItem(csv.rows[csv.index + 1], csv.index, csv.defaults,
                       csv.entries)
     IN  CsvAfterLoop(RowLoop([csv EXCEPT !.items = Append(@, it),
                                          !.index = @ + 1]))
  /\ UNCHANGED <<upload, catalog, tagRows,
                 bgRemovalEnabled, tagCreateCalls>>

\* readFile, the archive reader or writeFile throws: the catch answers 500
CsvThrows ==
  /\ EventLoop
  /\ csv.pc \in {"read", "write"}
  /\ response' = JsonError(500, "Failed to start CSV import")
  /\ csv' = [csv EXCEPT !.pc = "rmCsv"]
  /\ UNCHANGED <<importJobs, importQueue, importQueueRunning, worker, upload,
                 catalog, tagRows,
                 bgRemovalEnabled, tagCreateCalls>>

\* the finally block: rm of the CSV returns, then rm of the ZIP
CsvCleanup ==
  /\ EventLoop
  /\ csv.pc \in {"rmCsv", "rmZip"}
  /\ csv' = IF csv.pc = "rmCsv"
            THEN [csv EXCEPT !.pc = "rmZip", !.csvFile = FALSE]
            ELSE [NoCsv EXCEPT !.csvFile = csv.csvFile]
  /\ UNCHANGED <<importJobs, importQueue, importQueueRunning, worker, upload,
                 catalog, tagRows, response,
                 bgRemovalEnabled, tagCreateCalls>>

\* --------------------------------------------------- GET /api/imports/:id
\* (the ids asked for: those of the registered jobs, and one more that no
\* job has)
\* the handler: importJobs.get(id), 404 without a job, else its snapshot
PollResponseDropsCompleted(id) ==
  IF id <= Len(importJobs) /\ importJobs[id].status # "completed"
  THEN JsonJob(importJobs[id])
  ELSE JsonError(404, "Import job not found")
PollResponse(id) ==
  IF id <= Len(importJobs)
  THEN JsonJob(importJobs[id])
  ELSE JsonError(404, "Import job not found")

Poll ==
  /\ EventLoop
  /\ \E id \in 1..(Len(importJobs) + 1) :
       response' = [PollResponse(id) EXCEPT !.polled = id]
  /\ UNCHANGED <<importJobs, importQueue, importQueueRunning, worker, upload,
                 csv, catalog, tagRows,
                 bgRemovalEnabled, tagCreateCalls>>

\* ------------------------------------------------------------ specification
Init ==
  /\ importJobs = <<>>
  /\ importQueue = <<>>
  /\ importQueueRunning = FALSE
  /\ worker = IdleWorker
  /\ upload = NoUpload
  /\ csv = NoCsv
  /\ catalog = <<>>
  /\ tagRows = <<>>
  /\ response = NoResponse
  /\ bgRemovalEnabled = FALSE
  /\ tagCreateCalls = <<>>

WorkerStep ==
  \/ WorkerImageDone
  \/ WorkerTagsByName
  \/ WorkerTagCreated
  \/ WorkerTagsThrow
  \/ WorkerItemCreated
  \/ WorkerItemCreateThrows
  \/ WorkerLoop

Next ==
  \/ UploadArrives
  \/ UploadRejected
  \/ UploadAccepted
  \/ CsvArrives
  \/ CsvStart
  \/ CsvRead
  \/ CsvFileWritten
  \/ CsvThrows
  \/ CsvCleanup
  \/ Poll
  \/ WorkerImageDone
  \/ WorkerTagsByName
  \/ WorkerTagCreated
  \/ WorkerTagsThrow
  \/ WorkerItemCreated
  \/ WorkerItemCreateThrows
  \/ WorkerLoop

Spec == Init /\ [][Next]_vars

\* every awaited call of the worker eventually returns or throws
FairSpec == Spec /\ WF_vars(WorkerStep)

\* One direct upload of distinct files into a catalog that holds the tag
\* Old, with background removal switched on or off.
UploadInit ==
  /\ importJobs = <<>>
  /\ importQueue = <<>>
  /\ importQueueRunning = FALSE
  /\ worker = IdleWorker
  /\ upload = NoUpload
  /\ csv = NoCsv
  /\ catalog = <<>>
  /\ tagRows = <<Old>>
  /\ response = NoResponse
  /\ bgRemovalEnabled \in BOOLEAN
  /\ tagCreateCalls = <<>>

UploadNext ==
  \/ UploadArrivesWide
  \/ UploadRejected
  \/ UploadAccepted
  \/ Poll
  \/ WorkerImageDone
  \/ WorkerTagsByName
  \/ WorkerTagCreated
  \/ WorkerTagsThrow
  \/ WorkerItemCreated
  \/ WorkerItemCreateThrows
  \/ WorkerLoop

UploadSpec == UploadInit /\ [][UploadNext]_vars

\* One CSV + ZIP import over the wider rows and archives, as its handler and
\* the worker carry it out.
ManifestNext ==
  \/ CsvArrivesWide
  \/ CsvStart
  \/ CsvReadWide
  \/ CsvFileWritten
  \/ CsvThrows
  \/ CsvCleanup
  \/ WorkerImageDone
  \/ WorkerTagsByName
  \/ WorkerTagCreated
  \/ WorkerTagsThrow
  \/ WorkerItemCreated
  \/ WorkerItemCreateThrows
  \/ WorkerLoop

ManifestSpec == Init /\ [][ManifestNext]_vars

\* Direct uploads only, up to MaxQueued of them, so that jobs queue up behind
\* the one the worker is busy with.
QueueNext ==
  \/ UploadArrivesQueued
  \/ UploadRejected
  \/ UploadAccepted
  \/ WorkerImageDone
  \/ WorkerTagsByName
  \/ WorkerTagCreated
  \/ WorkerTagsThrow
  \/ WorkerItemCreated
  \/ WorkerItemCreateThrows
  \/ WorkerLoop

QueueSpec == Init /\ [][QueueNext]_vars

\* One CSV + ZIP import request at a time, with both files, one or none, up
\* to the first job, over the wider rows and archives.
CleanupNext ==
  \/ CsvArrivesAnyFiles
  \/ CsvStart
  \/ CsvReadWide
  \/ CsvFileWritten
  \/ CsvThrows
  \/ CsvCleanup
  \/ WorkerImageDone
  \/ WorkerTagsByName
  \/ WorkerTagCreated
  \/ WorkerTagsThrow
  \/ WorkerItemCreated
  \/ WorkerItemCreateThrows
  \/ WorkerLoop

CleanupSpec == Init /\ [][CleanupNext]_vars

\* ------------------------------------------------------------------ claims
Jobs == 1..Len(importJobs)
ItemsOf(j) == 1..Len(importJobs[j].items)
Terminal(item) == item.status \in {"completed", "failed"}

\* the snapshots a client holds: the body of the last 200 response
Snapshots == {response.job[k] : k \in 1..Len(response.job)}
\* every job as the registry holds it and as a response has shown it
Observable == {serializeImportJob(importJobs[j]) : j \in Jobs} \cup Snapshots

CountsInRange(job) ==
  /\ 0 <= job.completed /\ job.completed <= job.total
  /\ 0 <= job.failed /\ job.failed <= job.total
  /\ job.completed + job.failed <= job.total
  /\ job.status = "completed" => job.completed + job.failed = job.total

\* C1: in every job of the registry and in every snapshot a response carries,
\* 0 <= completed <= total, 0 <= failed <= total, completed + failed <= total,
\* and a completed job has completed + failed = total.
C1_CountsWithinTotal == \A job \in Observable : CountsInRange(job)

\* a poll has shown a completed job with both successes and failures
C1_Witness ==
  \E job \in Snapshots :
    job.status = "completed" /\ job.completed > 0 /\ job.failed > 0

\* C2: when the entry being processed fails, it alone becomes failed, with
\* the exception's message and no item id, and the failed count grows by
\* one; earlier entries, the other jobs and the catalog are untouched; the
\* worker moves on to the next entry that was not pre-failed (or completes
\* the job when there is none), so that in a completed job every entry that
\* had a file has been processed to completed or failed.
C2_ItemFailureIsLocal ==
  /\ [][\A j \in Jobs : \A i \in ItemsOf(j) :
          ( importJobs[j].items[i].status = "processing"
            /\ importJobs'[j].items[i].status = "failed" )
          => LET old == importJobs[j]
                 new == importJobs'[j]
                 later == {k \in ItemsOf(j) : k > i /\ old.items[k].status # "failed"}
                 next == CHOOSE k \in later : \A m \in later : k <= m
             IN  /\ new.items[i] = [old.items[i] EXCEPT !.status = "failed",
                                                         !.error = PrismaError]
                 /\ new.failed = old.failed + 1
                 /\ new.completed = old.completed
                 /\ new.total = old.total
                 /\ \A k \in ItemsOf(j) :
                      k # i =>
                        new.items[k] =
                          IF later # {} /\ k = next
                          THEN [old.items[k] EXCEPT !.status = "processing"]
                          ELSE old.items[k]
                 /\ new.status = IF later = {} THEN "completed" ELSE "processing"
                 /\ Len(importJobs') = Len(importJobs)
                 /\ \A o \in Jobs : o # j => importJobs'[o] = importJobs[o]
                 /\ catalog' = catalog
       ]_vars
  /\ [](\A j \in Jobs :
          importJobs[j].status = "completed"
          => \A i \in ItemsOf(j) :
               importJobs[j].items[i].filePath # NoPath
               => \/ importJobs[j].items[i].status = "completed"
                  \/ /\ importJobs[j].items[i].status = "failed"
                     /\ importJobs[j].items[i].error = PrismaError)

\* a job whose first entry failed in processing and whose second completed,
\* while another job holds an entry untouched by it
C2_Witness ==
  \E j \in Jobs :
    /\ Len(importJobs[j].items) >= 2
    /\ importJobs[j].items[1].status = "failed"
    /\ importJobs[j].items[1].error = PrismaError
    /\ importJobs[j].items[2].status = "completed"
    /\ \E o \in Jobs : o # j /\ importJobs[o].items[1].status = "queued"

\* C3: every job that enters the registry eventually has status completed
\* (under FairSpec: each awaited call of the worker returns or throws).
C3_EveryJobCompletes ==
  \A j \in 1..MaxJobs :
    (Len(importJobs) >= j) ~> (Len(importJobs) >= j /\ importJobs[j].status = "completed")

\* a job created behind another one has completed with all its entries failed
C3_Witness ==
  \E j \in Jobs :
    /\ j >= 2
    /\ importJobs[j].status = "completed"
    /\ importJobs[j].failed = importJobs[j].total
    /\ \E i \in ItemsOf(j) : importJobs[j].items[i].error = PrismaError

\* C4: a completed direct-upload job of two identical images, none of whose
\* entries met a persistence error, has one completed entry and one entry
\* failed with "Duplicate image detected.", and one catalog row.
C4_DuplicateUploadFlagged ==
  \A j \in Jobs :
    LET job == importJobs[j] IN
    ( /\ job.status = "completed"
      /\ Len(job.items) = 2
      /\ \A i \in 1..2 : /\ job.items[i].filePath.prefix = "item"
                          /\ job.items[i].error # PrismaError
      /\ job.items[1].filePath.img = job.items[2].filePath.img )
    => /\ job.completed = 1
       /\ job.failed = 1
       /\ \E i \in 1..2 : /\ job.items[i].status = "failed"
                           /\ job.items[i].error = "Duplicate image detected."
                           /\ job.items[i].itemId = NoItemId

StatusRank(status) ==
  CASE status = "queued" -> 0
    [] status = "processing" -> 1
    [] status = "completed" -> 2

\* C5: no step moves a job's status backwards along
\* queued -> processing -> completed, and no step removes a job.
C5_StatusOnlyForward ==
  [][ /\ Len(importJobs') >= Len(importJobs)
      /\ \A j \in Jobs :
           StatusRank(importJobs'[j].status) >= StatusRank(importJobs[j].status)
    ]_vars

\* the first job has completed and the second is being processed
C5_Witness ==
  /\ Len(importJobs) >= 2
  /\ importJobs[1].status = "completed"
  /\ importJobs[2].status = "processing"

\* C6: an entry that is completed or failed is never changed again by any
\* step (status, itemId, imageUrl, error and the rest stay as they are).
C6_TerminalItemsFinal ==
  [][\A j \in Jobs : \A i \in ItemsOf(j) :
       Terminal(importJobs[j].items[i])
       => /\ Len(importJobs') >= j
          /\ Len(importJobs'[j].items) >= i
          /\ importJobs'[j].items[i] = importJobs[j].items[i]
    ]_vars

\* the worker has run over a job with a row pre-failed by CSV resolution:
\* the job is completed, a later row was completed by the worker, and the
\* pre-failed row still shows its resolution error
C6_Witness ==
  \E j \in Jobs :
    /\ importJobs[j].status = "completed"
    /\ Len(importJobs[j].items) >= 2
    /\ importJobs[j].items[1].status = "failed"
    /\ importJobs[j].items[1].error = "Missing filename in CSV."
    /\ importJobs[j].items[2].status = "completed"

ItemFieldsAgree(item) ==
  /\ item.status = "completed"
       => item.itemId # NoItemId /\ item.imageUrl # NoUrl /\ item.error = NoError
  /\ item.status = "failed"
       => item.error # NoError /\ item.itemId = NoItemId
  /\ item.status \in {"queued", "processing"}
       => item.itemId = NoItemId /\ item.error = NoError

\* C7: in every job, stored or shown: a completed entry has an item id and
\* an image URL and no error, a failed entry has an error and no item id,
\* and a queued or processing entry has neither.
C7_ItemIdXorError ==
  \A job \in Observable : \A i \in 1..Len(job.items) : ItemFieldsAgree(job.items[i])

\* a job holds a row pre-failed for its missing archive entry, a completed
\* entry and (elsewhere) an entry in processing
C7_Witness ==
  /\ \E j \in Jobs : \E i, k \in ItemsOf(j) :
        /\ importJobs[j].items[i].error = "File not found in ZIP."
        /\ importJobs[j].items[k].status = "completed"
  /\ \E j \in Jobs : \E i \in ItemsOf(j) :
        importJobs[j].items[i].status = "processing"

CountsSumToTotal(job) == job.completed + job.failed = job.total

\* C8 as stated: completed + failed = total exactly when status = completed.
C8_SumIffCompleted ==
  \A j \in Jobs : CountsSumToTotal(importJobs[j]) <=> importJobs[j].status = "completed"

\* C8 amended: a completed job has completed + failed = total; a job whose
\* counts sum to total and which is not completed is queued, still in the run
\* queue, and all its rows were pre-failed at creation (failed = total, no
\* entry has a file); it is never in status processing.
C8_SumImpliesCompletedOrAllPreFailed ==
  \A j \in Jobs :
    LET job == importJobs[j] IN
    /\ job.status = "completed" => CountsSumToTotal(job)
    /\ (CountsSumToTotal(job) /\ job.status # "completed")
         => /\ job.status = "queued"
            /\ \E q \in 1..Len(importQueue) : importQueue[q] = j
            /\ job.failed = job.total
            /\ \A i \in ItemsOf(j) : /\ job.items[i].status = "failed"
                                      /\ job.items[i].filePath = NoPath

\* a job of pre-failed rows waits in the queue behind a job in processing
C8_Witness ==
  \E j \in Jobs :
    /\ importJobs[j].status = "queued"
    /\ CountsSumToTotal(importJobs[j])
    /\ \E o \in Jobs : importJobs[o].status = "processing"

\* C9: a job in status completed, stored or shown, holds only entries that
\* are completed or failed.
C9_CompletedJobAllTerminal ==
  \A job \in Observable :
    job.status = "completed" => \A i \in 1..Len(job.items) : Terminal(job.items[i])

\* a completed job made of a row the worker skipped and one it processed
C9_Witness ==
  \E job \in Snapshots :
    /\ job.status = "completed"
    /\ \E i, k \in 1..Len(job.items) :
         /\ job.items[i].error = "Missing type, category, or color for this row."
            \/ job.items[i].error = "File not found in ZIP."
         /\ job.items[k].status = "completed"

\* the requests the handlers must turn down
UploadInvalid(req) ==
  req.files = <<>> \/ req.type = <<>> \/ req.category = <<>> \/ req.color = <<>>
UploadTurnedDown == upload.pc = "received" /\ upload'.pc = "none" /\ UploadInvalid(upload.req)
CsvTurnedDownAtStart ==
  csv.pc = "received" /\ csv'.pc # "received" /\ ~(csv.csvFile /\ csv.zipFile)
CsvTurnedDownAfterRead ==
  /\ csv.pc = "read" /\ csv'.pc # "read"
  /\ \/ csv'.parsed = "errors"
     \/ csv'.parsed = "ok" /\ (csv'.rows = <<>> \/ csv'.entries = <<>>)

\* C10: the step that handles a direct upload without files or with an empty
\* type, category or color, or a CSV request without both files, with parse
\* errors, without data rows or without file entries in the archive, answers
\* 400 and leaves the registry, the run queue, the running flag, the worker
\* and the catalog as they were.
C10_RejectedRequestCreatesNothing ==
  [][ (UploadTurnedDown \/ CsvTurnedDownAtStart \/ CsvTurnedDownAfterRead)
      => /\ response'.code = 400
         /\ response'.job = <<>>
         /\ UNCHANGED <<importJobs, importQueue, importQueueRunning, worker,
                        catalog, tagRows>>
    ]_vars

\* an archive without files was turned down while an earlier job was in
\* processing
C10_Witness ==
  /\ response.code = 400
  /\ response.error = "ZIP contains no files"
  /\ \E j \in Jobs : importJobs[j].status = "processing"

\* the CSV handler has run its row loop over every row of the manifest
RowsDone ==
  /\ csv.pc \in {"rmCsv", "rmZip"}
  /\ csv.rows # <<>>
  /\ csv.index = Len(csv.rows)

\* the file name column of a row: filename, else file, else image
FilenameColumn(row) ==
  IF row.filename # <<>> THEN row.filename
  ELSE IF row.file # <<>> THEN row.file
  ELSE row.image
Blank(s) == \A i \in 1..Len(s) : s[i] = " "
BlankRows(rows) == {i \in 1..Len(rows) : Blank(FilenameColumn(rows[i]))}
FailedItems(items) == {i \in 1..Len(items) : items[i].status = "failed"}

\* C11: a row whose file name column is empty after trimming becomes an item
\* pre-marked failed with "Missing filename in CSV.", without a file, whatever
\* its other columns, the defaults and the archive hold; once the handler has
\* run over all rows the job is registered and answered with 200, the row
\* shows failed with that error in the answer and is among the items the
\* answer's failed count counts.
C11_BlankFilenameRowFails ==
  /\ \A i \in 1..Len(csv.items) :
       i \in BlankRows(csv.rows)
       => /\ csv.items[i].status = "failed"
          /\ csv.items[i].error = "Missing filename in CSV."
          /\ csv.items[i].filePath = NoPath
  /\ RowsDone
     => /\ response.code = 200
        /\ Len(response.job) = 1
        /\ Len(importJobs) = 1
        /\ LET shown == response.job[1] IN
           /\ Len(shown.items) = Len(csv.rows)
           /\ shown.failed = Cardinality(FailedItems(shown.items))
           /\ \A i \in BlankRows(csv.rows) :
                /\ shown.items[i].status = "failed"
                /\ shown.items[i].error = "Missing filename in CSV."
                /\ importJobs[1].items[i].status = "failed"
                /\ importJobs[1].items[i].error = "Missing filename in CSV."

\* a manifest whose first row has a blank filename next to a file column, a
\* type, category and color of its own, and whose second row was matched in
\* the archive, has been answered with 200
C11_Witness ==
  /\ RowsDone
  /\ Len(csv.rows) = 2
  /\ csv.rows[1].filename = <<" ">>
  /\ csv.rows[1].file # <<>>
  /\ csv.rows[1].category # <<>>
  /\ csv.defaults.type # <<>>
  /\ response.code = 200
  /\ response.job[1].items[1].error = "Missing filename in CSV."
  /\ response.job[1].items[2].status = "processing"
  /\ response.job[1].failed = 1

\* the entries whose base file name is the row's file name, and those whose
\* base file name without extension is the row's without extension, both
\* compared in lower case
NameMatches(entries, filename) ==
  {k \in 1..Len(entries) :
     ToLowerCase(BaseName(entries[k].entryName)) = ToLowerCase(filename)}
StemMatches(entries, filename) ==
  {k \in 1..Len(entries) :
     ToLowerCase(ParseName(BaseName(entries[k].entryName)))
       = ToLowerCase(ParseName(filename))}
Least(S) == CHOOSE k \in S : \A m \in S : k <= m

\* the rows that have a file name and a type, category and color, of their
\* own or from the defaults
Resolvable(row, defaults) ==
  /\ ~Blank(FilenameColumn(row))
  /\ Trim(row.type) # <<>> \/ defaults.type # <<>>
  /\ Trim(row.category) # <<>> \/ defaults.category # <<>>
  /\ Trim(row.color) # <<>> \/ defaults.color # <<>>

\* C12: the item built for a row with a file name and a type, category and
\* color has the error "File not found in ZIP." exactly when no entry of the
\* archive matches by name or by name without extension, and is then failed
\* without a file; otherwise it is queued, without error, with the file
\* written from the first entry matching by name or, when none does, from the
\* first entry matching without extension.
C12_UnmatchedRowFails ==
  \A i \in 1..Len(csv.items) :
    LET row == csv.rows[i]
        item == csv.items[i]
        filename == Trim(FilenameColumn(row))
        byName == NameMatches(csv.entries, filename)
        byStem == StemMatches(csv.entries, filename)
    IN  Resolvable(row, csv.defaults)
        => /\ item.error = "File not found in ZIP." <=> byName \cup byStem = {}
           /\ byName \cup byStem = {}
                => item.status = "failed" /\ item.filePath = NoPath
           /\ byName \cup byStem # {}
                => /\ item.status = "queued"
                   /\ item.error = NoError
                   /\ item.filePath # NoPath
                   /\ item.filePath.img =
                        csv.entries[IF byName # {} THEN Least(byName)
                                    ELSE Least(byStem)].img

\* the manifest named one file in other case and extension than the archive
\* has it, which was written, and one file the archive does not hold
C12_Witness ==
  \E i, k \in 1..Len(csv.items) :
    /\ Resolvable(csv.rows[i], csv.defaults)
    /\ NameMatches(csv.entries, Trim(FilenameColumn(csv.rows[i]))) = {}
    /\ StemMatches(csv.entries, Trim(FilenameColumn(csv.rows[i]))) # {}
    /\ csv.items[i].status = "queued"
    /\ csv.items[i].filePath # NoPath
    /\ csv.items[k].error = "File not found in ZIP."

\* an item as the CSV handler builds it: failed with an error and no file,
\* or queued with a file and no error; never processed yet
AsBuilt(item) ==
  /\ item.itemId = NoItemId
  /\ item.imageUrl = NoUrl
  /\ IF item.status = "failed"
     THEN item.error # NoError /\ item.filePath = NoPath
     ELSE item.status = "queued" /\ item.error = NoError /\ item.filePath # NoPath

\* C13: the CSV handler builds one item per row, in row order (item i is
\* numbered i and named after row i), each either failed with an error and no
\* file or queued with a file, and counts the failed ones as it goes; when it
\* has run over all rows, the job it registers and answers has total = the
\* number of rows, completed = 0 and failed = the number of items built
\* failed, and holds those items in that order.
C13_OneItemPerRow ==
  /\ Len(csv.items) <= Len(csv.rows)
  /\ csv.failed = Cardinality(FailedItems(csv.items))
  /\ \A i \in 1..Len(csv.items) :
       /\ AsBuilt(csv.items[i])
       /\ csv.items[i].id = i
       /\ ~Blank(FilenameColumn(csv.rows[i]))
            => csv.items[i].filename = Trim(FilenameColumn(csv.rows[i]))
  /\ RowsDone
     => /\ Len(csv.items) = Len(csv.rows)
        /\ response.code = 200
        /\ Len(response.job) = 1
        /\ Len(importJobs) = 1
        /\ LET shown == response.job[1]
               job == importJobs[1]
           IN  /\ shown.total = Len(csv.rows)
               /\ shown.completed = 0
               /\ shown.failed = Cardinality(FailedItems(csv.items))
               /\ job.total = Len(csv.rows)
               /\ Len(shown.items) = Len(csv.rows)
               /\ Len(job.items) = Len(csv.rows)
               /\ \A i \in 1..Len(csv.rows) :
                    /\ shown.items[i].id = i
                    /\ shown.items[i].filename = csv.items[i].filename
                    /\ job.items[i].id = i
                    /\ job.items[i].filename = csv.items[i].filename
                    /\ job.items[i].filePath = csv.items[i].filePath
                    /\ job.items[i].payload = csv.items[i].payload
                    /\ csv.items[i].status = "failed"
                         => /\ shown.items[i].status = "failed"
                            /\ shown.items[i].error = csv.items[i].error

\* a manifest of two rows, the first failed for its missing type and the
\* second written from the archive, has become a job of total 2, failed 1
C13_Witness ==
  /\ RowsDone
  /\ Len(csv.rows) = 2
  /\ csv.items[1].error = "Missing type, category, or color for this row."
  /\ csv.items[2].status = "queued"
  /\ csv.items[2].filePath # NoPath
  /\ response.code = 200
  /\ response.job[1].total = 2
  /\ response.job[1].failed = 1
  /\ response.job[1].completed = 0

\* the columns a row may fill in itself or take from the request's defaults
ResolvedFields ==
  {"type", "category", "color", "brand", "size", "material", "notes"}

\* the value of a field for a row: its own, trimmed, unless that is empty
ValueFor(row, defaults, f) ==
  IF Trim(row[f]) # <<>> THEN Trim(row[f]) ELSE defaults[f]

\* C14: for every row and each of type, category, color, brand, size,
\* material and notes, the item built for the row holds the row's trimmed
\* value when that is not empty and the request's default otherwise; the job
\* holds those values unchanged, and the catalog row created for a completed
\* entry carries the values its item holds.
C14_RowValueElseDefault ==
  /\ \A i \in 1..Len(csv.items) : \A f \in ResolvedFields :
       csv.items[i].payload[f] = ValueFor(csv.rows[i], csv.defaults, f)
  /\ RowsDone
     => \A i \in 1..Len(csv.rows) : \A f \in ResolvedFields :
          /\ importJobs[1].items[i].payload[f]
               = ValueFor(csv.rows[i], csv.defaults, f)
          /\ importJobs[1].items[i].status = "completed"
               => catalog[importJobs[1].items[i].itemId][f]
                    = ValueFor(csv.rows[i], csv.defaults, f)
  /\ \A j \in Jobs : \A i \in ItemsOf(j) : \A f \in ResolvedFields :
       importJobs[j].items[i].status = "completed"
       => /\ importJobs[j].items[i].itemId \in 1..Len(catalog)
          /\ catalog[importJobs[j].items[i].itemId][f]
               = importJobs[j].items[i].payload[f]

\* with all defaults sent, a row that fills in every column and a row that
\* fills in none have both been completed: the first catalog row carries the
\* row's type and brand, the second the defaults
C14_Witness ==
  /\ RowsDone
  /\ Len(csv.rows) = 2
  /\ csv.defaults.type = <<"T">>
  /\ csv.defaults.brand = <<"B">>
  /\ csv.rows[1].type = <<" ", "U">>
  /\ csv.rows[1].brand = <<"X", " ">>
  /\ csv.rows[2].type = <<>>
  /\ importJobs[1].status = "completed"
  /\ importJobs[1].completed = 2
  /\ catalog[importJobs[1].items[1].itemId].type = <<"U">>
  /\ catalog[importJobs[1].items[1].itemId].brand = <<"X">>
  /\ catalog[importJobs[1].items[2].itemId].type = <<"T">>
  /\ catalog[importJobs[1].items[2].itemId].brand = <<"B">>

\* a file name without its extension: cut at its last dot, unless it has
\* none or starts with it
StripExt(name) ==
  LET dots == {i \in 2..Len(name) : name[i] = "."}
  IN  IF dots = {} THEN name
      ELSE SubSeq(name, 1, (CHOOSE d \in dots : \A e \in dots : e <= d) - 1)

CompletedEntries ==
  {<<j, i>> \in Jobs \X (1..MaxFiles + 1) :
     i <= Len(importJobs[j].items) /\ importJobs[j].items[i].status = "completed"}

\* C15: the step that accepts a direct upload of n files registers a job with
\* total = n whose item i is file i (its name, its stored file), and answers
\* it; and every completed entry of a job has a catalog row of its own whose
\* name is the entry's file name without extension and whose type, category
\* and color are the job's defaults, which are the request's.
C15_UploadMakesOneItemPerFile ==
  /\ [][ (upload.pc = "received" /\ Len(importJobs') = Len(importJobs) + 1)
         => LET req == upload.req
                job == importJobs'[Len(importJobs')]
            IN  /\ job.total = Len(req.files)
                /\ Len(job.items) = Len(req.files)
                /\ job.completed = 0 /\ job.failed = 0
                /\ job.defaults.type = req.type
                /\ job.defaults.category = req.category
                /\ job.defaults.color = req.color
                /\ \A i \in 1..Len(req.files) :
                     /\ job.items[i].id = i
                     /\ job.items[i].filename = req.files[i].originalname
                     /\ job.items[i].filePath.img = req.files[i].img
                /\ response'.code = 200
                /\ response'.job[1].total = Len(req.files)
                /\ \A i \in 1..Len(req.files) :
                     response'.job[1].items[i].filename = req.files[i].originalname
       ]_vars
  /\ [](/\ \A e \in CompletedEntries :
             LET job == importJobs[e[1]]
                 item == job.items[e[2]]
             IN  /\ item.itemId \in 1..Len(catalog)
                 /\ catalog[item.itemId].name = StripExt(item.filename)
                 /\ catalog[item.itemId].type = job.defaults.type
                 /\ catalog[item.itemId].category = job.defaults.category
                 /\ catalog[item.itemId].color = job.defaults.color
                 /\ catalog[item.itemId].imageUrl.img = item.filePath.img
        /\ \A e, g \in CompletedEntries :
             e # g => importJobs[e[1]].items[e[2]].itemId
                        # importJobs[g[1]].items[g[2]].itemId)

\* the upload of a.p and c.d.p has completed both entries: the catalog holds
\* the items a and c.d with the request's type, category and color
C15_Witness ==
  /\ Len(importJobs) = 1
  /\ importJobs[1].status = "completed"
  /\ importJobs[1].total = 2
  /\ importJobs[1].completed = 2
  /\ importJobs[1].items[1].filename = <<"a", ".", "p">>
  /\ importJobs[1].items[2].filename = <<"c", ".", "d", ".", "p">>
  /\ Len(catalog) = 2
  /\ catalog[1].name = <<"a">> /\ catalog[1].type = ValT
  /\ catalog[2].name = <<"c", ".", "d">> /\ catalog[2].color = ValR

ShownItemFields == {"id", "filename", "status", "itemId", "imageUrl", "error"}

\* C16: every job a response carries holds, for each item, exactly the fields
\* id, filename, status, itemId, imageUrl and error (no file path, no
\* payload); and the step that sends it shows the registered job's items, all
\* of them and in their order, with the values the registry holds then.
C16_SnapshotOmitsInternals ==
  /\ [](\A shown \in Snapshots : \A i \in 1..Len(shown.items) :
          DOMAIN shown.items[i] = ShownItemFields)
  /\ [][ (response' # response /\ response'.job # <<>>)
         => LET shown == response'.job[1] IN
            /\ shown.id \in 1..Len(importJobs')
            /\ Len(shown.items) = Len(importJobs'[shown.id].items)
            /\ \A i \in 1..Len(shown.items) : \A f \in ShownItemFields :
                 shown.items[i][f] = importJobs'[shown.id].items[i][f]
       ]_vars

\* a response shows a completed entry whose registry item holds the file
\* path and payload it was made from
C16_Witness ==
  \E shown \in Snapshots : \E i \in 1..Len(shown.items) :
    /\ shown.items[i].status = "completed"
    /\ shown.items[i].imageUrl # NoUrl
    /\ importJobs[shown.id].items[i].filePath # NoPath
    /\ importJobs[shown.id].items[i].payload.name # <<>>

\* a step that answers a GET /api/imports/:id request
PollAnswered == response' # response /\ response'.polled # 0

\* C17: a step that answers a poll changes nothing but the response; it
\* answers 200 with the snapshot of the registered job when the id asked for
\* is that of a registered job, and 404 "Import job not found" without a job
\* otherwise; no step removes a job from the registry or changes its id, so
\* an id once answered by a create stays answered with 200.
C17_PollReadOnlyAndTotal ==
  /\ [][ PollAnswered
         => /\ UNCHANGED <<importJobs, importQueue, importQueueRunning, worker,
                           upload, csv, catalog, tagRows>>
            /\ IF response'.polled \in Jobs
               THEN /\ response'.code = 200
                    /\ response'.job
                         = <<serializeImportJob(importJobs[response'.polled])>>
                    /\ response'.job[1].id = response'.polled
               ELSE /\ response'.code = 404
                    /\ response'.error = "Import job not found"
                    /\ response'.job = <<>>
       ]_vars
  /\ [][ /\ Len(importJobs') >= Len(importJobs)
         /\ \A j \in Jobs : importJobs'[j].id = j
         /\ (response'.polled = 0 /\ response'.code = 200 /\ response' # response)
              => response'.job[1].id \in 1..Len(importJobs')
       ]_vars

\* the first job is polled after it and the job created after it have
\* completed, and is answered with 200 and its snapshot
C17_Witness ==
  /\ Len(importJobs) = 2
  /\ importJobs[1].status = "completed"
  /\ importJobs[2].status = "completed"
  /\ response.polled = 1
  /\ response.code = 200
  /\ response.job[1].id = 1
  /\ response.job[1].status = "completed"

TagNames == {Beach, Old, Sun}
NamesOf(item) == RangeOf(TrimmedNames(item.payload.tags))
Naming(j, n) == {i \in ItemsOf(j) : n \in NamesOf(importJobs[j].items[i])}
CallsIn(calls, j, n) ==
  Cardinality({k \in 1..Len(calls) : calls[k] = [job |-> j, name |-> n]})
FailedInProcessing(j) ==
  {i \in ItemsOf(j) : /\ importJobs[j].items[i].status = "failed"
                      /\ importJobs[j].items[i].filePath # NoPath}

ImageStep == worker.pc = "image" /\ worker' # worker

\* the entry the worker is at, as the registry holds it after the step
CurItemAfter == importJobs'[worker.job].items[worker.item]

DisabledResults(filePath) ==
  {processUploadedImage(filePath, FALSE, bg, std) : bg, std \in StageOutcomes}

\* an image reference that no cut-out went into
Uncut(url) ==
  \/ url.kind = "original"
  \/ url.kind = "standard" /\ url.source = "original"

\* C20: a throw of the background-removal stage is never an entry failure.
\* While an entry's image is in the pipeline, a throwing stage gives, for
\* either outcome of standardization, exactly the result the pipeline gives
\* with the feature disabled, and without an error; an image step changes no
\* entry, and the image it hands on either has no cut-out in it, is untrimmed
\* and is one the disabled pipeline returns, or was cut out with the feature
\* enabled; and no entry ever carries the segmentation error.
C20_BackgroundRemovalFailureIsNotFatal ==
  /\ [](worker.pc = "image"
        => \A std \in StageOutcomes :
             LET r == processUploadedImage(CurItem.filePath, bgRemovalEnabled,
                                           "throws", std)
             IN  /\ r.error = NoError
                 /\ r = processUploadedImage(CurItem.filePath, FALSE, "ok", std)
                 /\ Uncut(r.url) /\ ~r.url.trimmed)
  /\ [][ImageStep
        => /\ importJobs' = importJobs
           /\ IF Uncut(worker'.imageUrl)
              THEN /\ ~worker'.imageUrl.trimmed
                   /\ Returned(worker'.imageUrl) \in DisabledResults(CurItem.filePath)
              ELSE bgRemovalEnabled
       ]_vars
  /\ [](\A j \in Jobs : \A i \in ItemsOf(j) :
          importJobs[j].items[i].error # SegmentationError)

\* background removal is enabled and threw for the first entry of a job, which
\* completed with the standardized, untrimmed original as its catalog image;
\* for the second entry the stage produced a cut-out
C20_Witness ==
  /\ bgRemovalEnabled
  /\ Len(importJobs) = 1
  /\ Len(importJobs[1].items) = 2
  /\ importJobs[1].items[1].status = "completed"
  /\ importJobs[1].items[1].imageUrl.kind = "standard"
  /\ importJobs[1].items[1].imageUrl.source = "original"
  /\ ~importJobs[1].items[1].imageUrl.trimmed
  /\ catalog[importJobs[1].items[1].itemId].imageUrl
       = importJobs[1].items[1].imageUrl
  /\ importJobs[1].items[2].status = "completed"
  /\ importJobs[1].items[2].imageUrl.source = "cutout"
  /\ importJobs[1].items[2].imageUrl.trimmed


\* ---------------------------------------------------------------------------
\* C21: progress as a client observes it

\* the job a 200 response shows
Shown(r) == r.job[1]

Progress(job) == job.completed + job.failed

\* job b is job a at the same or a later point of its processing
NotBehind(a, b) ==
  /\ a.completed <= b.completed
  /\ a.failed <= b.failed
  /\ Progress(a) <= Progress(b)
  /\ a.total = b.total

\* C21: progress is monotone.  No step lowers completed, failed or their sum
\* of a registered job or changes its total; every 200 response shows the job
\* as the registry holds it when the response is sent; the last response is
\* never ahead of the registry; so of two successive observations of a job
\* (the create response, then polls in time order) the later is not behind.
C21_ProgressMonotone ==
  /\ [][\A j \in Jobs : NotBehind(importJobs[j], importJobs'[j])]_vars
  /\ [][(response' # response /\ response'.code = 200)
        => Shown(response')
             = serializeImportJob(importJobs'[Shown(response').id])]_vars
  /\ [][(/\ response.code = 200
         /\ response'.code = 200
         /\ Shown(response').id = Shown(response).id)
        => NotBehind(Shown(response), Shown(response'))]_vars
  /\ [](response.code = 200
        => NotBehind(Shown(response), importJobs[Shown(response).id]))

\* a poll has shown a job with one entry done, and the job has since moved
\* on to two: the next poll of it observes more, not less
C21_Witness ==
  /\ response.code = 200
  /\ response.polled = Shown(response).id
  /\ Progress(Shown(response)) = 1
  /\ Shown(response).failed = 1
  /\ importJobs[response.polled].completed = 1
  /\ Progress(importJobs[response.polled]) = 2


\* ---------------------------------------------------------------------------
\* C22: no retry

\* a step in which the await of item.create is resolved: the call returns a
\* row or throws
CreateStep == worker.pc = "create" /\ worker' # worker

\* the entries of job j that a catalog row was created for, and their rows
CompletedOf(j) == {i \in ItemsOf(j) : importJobs[j].items[i].status = "completed"}
RowsOf(j) == {importJobs[j].items[i].itemId : i \in CompletedOf(j)}

\* an entry is taken up at most once: it is set processing only from queued,
\* and never set back to queued
AttemptedOnce ==
  [][\A j \in Jobs : \A i \in ItemsOf(j) :
       LET before == importJobs[j].items[i].status
           after == importJobs'[j].items[i].status
       IN  /\ after = "queued" => before = "queued"
           /\ (after = "processing" /\ before # "processing")
              => before = "queued"
    ]_vars

\* at every state each job's catalog rows are as many as its completed count,
\* one per completed entry, and the catalog holds no other rows
RowsMatchCompleted ==
  /\ \A j \in Jobs :
       /\ Cardinality(RowsOf(j)) = Cardinality(CompletedOf(j))
       /\ Cardinality(RowsOf(j)) = importJobs[j].completed
       /\ \A k \in Jobs : k # j => RowsOf(j) \cap RowsOf(k) = {}
       /\ \A i \in ItemsOf(j) :
            importJobs[j].items[i].status # "completed"
            => importJobs[j].items[i].itemId = NoItemId
  /\ UNION {RowsOf(j) : j \in Jobs} = 1..Len(catalog)

\* C22 as stated: each entry is attempted at most once, the create call is
\* made for an entry being processed and never for one that ends failed, and
\* the catalog rows of each job match its completed count.
C22_NoCreateCallForFailedEntry ==
  /\ AttemptedOnce
  /\ [][CreateStep
        => /\ CurItem.status = "processing"
           /\ CurItemAfter.status # "failed"]_vars
  /\ []RowsMatchCompleted

\* C22 amended: each entry is attempted at most once; the create call is made
\* only for an entry being processed, which is completed or failed when the
\* call is over, so it is made at most once per entry and never for an entry
\* that is failed; an entry ends failed after the call only when the call
\* threw, and then the catalog is as it was; a call that returns adds exactly
\* one row, that of the now completed entry; at every state the catalog rows
\* of each job match its completed count.
C22_NoRetry ==
  /\ AttemptedOnce
  /\ [][CreateStep
        => /\ CurItem.status = "processing"
           /\ \/ /\ CurItemAfter.status = "completed"
                 /\ Len(catalog') = Len(catalog) + 1
                 /\ CurItemAfter.itemId = Len(catalog')
              \/ /\ CurItemAfter.status = "failed"
                 /\ CurItemAfter.error = PrismaError
                 /\ CurItemAfter.itemId = NoItemId
                 /\ catalog' = catalog
       ]_vars
  /\ [][catalog' # catalog => CreateStep]_vars
  /\ []RowsMatchCompleted

\* a completed upload of two files without tags: the create call of the first
\* threw, so that entry is failed and has no row, and the second entry was
\* completed with the only row of the catalog
C22_Witness ==
  /\ Len(importJobs) = 1
  /\ importJobs[1].status = "completed"
  /\ Len(importJobs[1].items) = 2
  /\ importJobs[1].items[1].payload.tags = <<>>
  /\ importJobs[1].items[1].status = "failed"
  /\ importJobs[1].items[1].error = PrismaError
  /\ importJobs[1].items[2].status = "completed"
  /\ importJobs[1].items[2].itemId = 1
  /\ Len(catalog) = 1


\* ---------------------------------------------------------------------------
\* C23: a single worker

ProcessingJobs == {j \in Jobs : importJobs[j].status = "processing"}
ProcessingItems ==
  {<<j, i>> \in Jobs \X (1..MaxFiles + MaxRows) :
     i \in ItemsOf(j) /\ importJobs[j].items[i].status = "processing"}

\* C23: at every state at most one job and at most one entry across all jobs
\* is processing; the entry being processed is the one the drain loop is
\* suspended at, within the one job that is processing; and the drain loop is
\* active exactly while the running flag is set, so a create request that
\* arrives meanwhile starts no second loop.
C23_SingleWorker ==
  /\ Cardinality(ProcessingJobs) <= 1
  /\ Cardinality(ProcessingItems) <= 1
  /\ \A p \in ProcessingItems :
       /\ ProcessingJobs = {p[1]}
       /\ worker.job = p[1] /\ worker.item = p[2]
       /\ worker.pc \in {"image", "tagByName", "tagCreate", "create"}
  /\ ProcessingJobs # {} => importQueueRunning
  /\ importQueueRunning <=> worker.pc # "idle"
  /\ worker.pc \in {"image", "tagByName", "tagCreate", "create"}
     => ProcessingItems = {<<worker.job, worker.item>>}

\* a second job was created while the worker was suspended inside the first:
\* the first is processing with one entry processing, the second waits in
\* the run queue
C23_Witness ==
  /\ Len(importJobs) = 2
  /\ importJobs[1].status = "processing"
  /\ importJobs[2].status = "queued"
  /\ importQueue = <<2>>
  /\ ProcessingItems = {<<1, 2>>}
  /\ worker.pc = "create"


\* ---------------------------------------------------------------------------
\* C24: jobs are processed in the order they were created

RECURSIVE QueuedIds(_)
\* the ids from k on of the jobs that are queued, in creation order
QueuedIds(k) ==
  IF k > Len(importJobs) THEN <<>>
  ELSE IF importJobs[k].status = "queued" THEN <<k>> \o QueuedIds(k + 1)
  ELSE QueuedIds(k + 1)

\* C24: job ids count the enqueue calls, so a < b means a was enqueued first.
\* At every state a later job has left queued only if every earlier job is
\* completed (so the earlier one is completed first); the run queue holds
\* exactly the queued jobs, each once, in creation order (none is skipped);
\* and a step that sets a job processing takes a queued job, the head of the
\* run queue, and removes it (none is processed twice).
C24_JobsInCreationOrder ==
  /\ [](\A a, b \in Jobs :
          (a < b /\ importJobs[b].status # "queued")
          => importJobs[a].status = "completed")
  /\ [](importQueue = QueuedIds(1))
  /\ [][\A j \in Jobs \cup {Len(importJobs')} :
          ( /\ j >= 1
            /\ importJobs'[j].status # "queued"
            /\ (j \in Jobs => importJobs[j].status = "queued") )
          => /\ (importQueue \o <<j>>)[1] = j
             /\ j \notin RangeOf(importQueue')
       ]_vars

\* three jobs: the worker is busy with the first, and the second and the
\* third wait in the run queue in the order they were created
C24_Witness ==
  /\ Len(importJobs) = 3
  /\ importJobs[1].status = "processing"
  /\ importJobs[2].status = "queued"
  /\ importJobs[3].status = "queued"
  /\ importQueue = <<2, 3>>


\* ---------------------------------------------------------------------------
\* C25: the worker never skips ahead

\* an entry the worker has taken up: it is processing, or it was completed or
\* failed in processing (a row failed by CSV resolution has no file)
TakenUp(item) ==
  \/ item.status \in {"processing", "completed"}
  \/ item.status = "failed" /\ item.filePath # NoPath

\* C25 as stated: at every state the terminal entries of a job are its first
\* ones (entries reach their terminal state in manifest order), and every
\* entry before one that is processing or completed is terminal.
C25_TerminalInManifestOrder ==
  \A j \in Jobs : \A pos \in ItemsOf(j) : \A i \in 1..(pos - 1) :
    ( \/ Terminal(importJobs[j].items[pos])
      \/ importJobs[j].items[pos].status = "processing" )
    => Terminal(importJobs[j].items[i])

\* C25 amended: at every state every entry before one the worker has taken
\* up is terminal; a step that ends an entry of a registered job ends the one
\* the worker is at, and after it every entry behind that one is still
\* queued or is a row that CSV resolution failed.  Rows failed by CSV
\* resolution are failed from creation, whatever their position.
C25_WorkerNeverSkipsAhead ==
  /\ [](\A j \in Jobs : \A pos \in ItemsOf(j) : \A i \in 1..(pos - 1) :
          TakenUp(importJobs[j].items[pos])
          => Terminal(importJobs[j].items[i]))
  /\ [][\A j \in Jobs : \A pos \in ItemsOf(j) :
          ( /\ ~Terminal(importJobs[j].items[pos])
            /\ Terminal(importJobs'[j].items[pos]) )
          => /\ worker.job = j /\ worker.item = pos
             /\ \A i \in 1..(pos - 1) : Terminal(importJobs'[j].items[i])
             /\ \A k \in (pos + 1)..Len(importJobs[j].items) :
                  \/ importJobs'[j].items[k].status = "queued"
                  \/ importJobs'[j].items[k].status = "processing"
                     /\ \A m \in (pos + 1)..(k - 1) :
                          ~TakenUp(importJobs'[j].items[m])
                          /\ Terminal(importJobs'[j].items[m])
                  \/ ~TakenUp(importJobs'[j].items[k])
       ]_vars

\* a CSV job whose second row failed resolution while its first row is
\* being processed by the worker
C25_Witness ==
  \E j \in Jobs :
    /\ Len(importJobs[j].items) = 2
    /\ importJobs[j].items[1].status = "processing"
    /\ importJobs[j].items[2].status = "failed"
    /\ importJobs[j].items[2].filePath = NoPath
    /\ worker.job = j /\ worker.pc = "create"


\* ---------------------------------------------------------------------------
\* C26: the order of the CSV row checks

\* the row has a file name but no type, category or color, neither of its own
\* nor from the defaults
LacksRequired(row, defaults) ==
  /\ ~Blank(FilenameColumn(row))
  /\ \/ Trim(row.type) = <<>> /\ defaults.type = <<>>
     \/ Trim(row.category) = <<>> /\ defaults.category = <<>>
     \/ Trim(row.color) = <<>> /\ defaults.color = <<>>

InArchive(entries, row) ==
  NameMatches(entries, Trim(FilenameColumn(row)))
    \cup StemMatches(entries, Trim(FilenameColumn(row))) # {}

RowErrors ==
  {"Missing filename in CSV.", "Missing type, category, or color for this row.",
   "File not found in ZIP."}

\* C26: every item the CSV handler builds is failed with exactly one of the
\* three row errors or queued without an error: "Missing filename in CSV."
\* exactly for a blank file name, whatever else the row lacks; "Missing type,
\* category, or color for this row." exactly for a row with a file name whose
\* resolved type, category or color is empty, whether the archive holds its
\* file or not, and then without a file; "File not found in ZIP." only for a
\* row that passed both checks.  The handler suspends to write a file only
\* for a row that passed both checks and is in the archive.
C26_RowChecksInOrder ==
  /\ \A i \in 1..Len(csv.items) :
       LET row == csv.rows[i]
           item == csv.items[i]
       IN  /\ item.status = "failed" <=> item.error \in RowErrors
           /\ item.status # "failed" => item.error = NoError
           /\ item.error = "Missing filename in CSV."
                <=> Blank(FilenameColumn(row))
           /\ item.error = "Missing type, category, or color for this row."
                <=> LacksRequired(row, csv.defaults)
           /\ LacksRequired(row, csv.defaults) => item.filePath = NoPath
           /\ item.error = "File not found in ZIP."
                <=> /\ Resolvable(row, csv.defaults)
                    /\ ~InArchive(csv.entries, row)
  /\ csv.pc = "write"
     => /\ Resolvable(csv.rows[csv.index + 1], csv.defaults)
        /\ InArchive(csv.entries, csv.rows[csv.index + 1])

\* a manifest of two rows without type, under defaults without type: the
\* first names a file the archive does not hold and failed for its type, the
\* second has a blank file name and failed for that
C26_Witness ==
  /\ RowsDone
  /\ Len(csv.items) = 2
  /\ csv.defaults.type = <<>>
  /\ LacksRequired(csv.rows[1], csv.defaults)
  /\ ~InArchive(csv.entries, csv.rows[1])
  /\ csv.items[1].error = "Missing type, category, or color for this row."
  /\ Blank(FilenameColumn(csv.rows[2]))
  /\ Trim(csv.rows[2].type) = <<>>
  /\ csv.items[2].error = "Missing filename in CSV."


\* ---------------------------------------------------------------------------
\* C27: the temporary files of a CSV + ZIP request

\* C27: whenever no CSV + ZIP request is being handled (the latest one has
\* been answered and its handler has returned), the storage area holds
\* neither the CSV nor the archive that was uploaded with it.
C27_TemporaryFilesRemoved ==
  csv.pc = "none" => ~csv.csvFile /\ ~csv.zipFile


\* ---------------------------------------------------------------------------
\* C28: the counts agree with the item statuses

WithStatus(job, status) ==
  {i \in 1..Len(job.items) : job.items[i].status = status}

CountsAgree(job) ==
  /\ job.completed = Cardinality(WithStatus(job, "completed"))
  /\ job.failed = Cardinality(WithStatus(job, "failed"))

\* C28: at every state in which control is back in the event loop, each
\* registered job, and the job the last response shows, has completed = the
\* number of its items that are completed and failed = the number of its
\* items that are failed.
C28_CountsAgreeWithStatuses ==
  EventLoop => \A job \in Observable : CountsAgree(job)

\* a CSV job has been processed to its end: its first row failed resolution
\* and its second row was completed by the worker
C28_Witness ==
  /\ EventLoop
  /\ \E j \in Jobs :
       /\ importJobs[j].status = "completed"
       /\ Len(importJobs[j].items) = 2
       /\ importJobs[j].items[1].status = "failed"
       /\ importJobs[j].items[1].filePath = NoPath
       /\ importJobs[j].items[2].status = "completed"
       /\ importJobs[j].failed = 1
       /\ importJobs[j].completed = 1


\* ---------------------------------------------------------------------------
\* C29: the running flag never strands a job

Unfinished == {j \in Jobs : importJobs[j].status \in {"queued", "processing"}}

\* C29: at every state in which control is back in the event loop, a cleared
\* running flag means an empty run queue and no job queued or processing; so
\* whenever a job waits, the drain loop is suspended with the flag set, and
\* when it resumes at its while test with a job in the run queue it takes the
\* head job up without a further trigger.
C29_FlagNeverStrandsJob ==
  /\ [](EventLoop /\ ~importQueueRunning
        => importQueue = <<>> /\ Unfinished = {})
  /\ [](importQueue # <<>> => importQueueRunning /\ worker.pc # "idle")
  /\ [][(worker.pc = "loop" /\ importQueue # <<>> /\ worker' # worker)
        => /\ importJobs[Head(importQueue)].status = "queued"
           /\ importJobs'[Head(importQueue)].status # "queued"
           /\ importQueueRunning']_vars

\* a second job was created, and answered as queued, while the worker was
\* suspended on the last entry of the first: it waits in the run queue with
\* the flag set
C29_Witness ==
  /\ Len(importJobs) = 2
  /\ importQueueRunning
  /\ importQueue = <<2>>
  /\ importJobs[1].status = "processing"
  /\ worker.job = 1
  /\ worker.item = Len(importJobs[1].items)
  /\ upload.pc = "none" /\ csv.pc = "none"
  /\ response.code = 200
  /\ Shown(response).id = 2
  /\ Shown(response).status = "queued"


\* ---------------------------------------------------------------------------
\* C30: what a failed entry leaves in the catalog

\* the entries of any job that name the tag and have the given statuses
NamedBy(name, statuses) ==
  {<<j, i>> \in Jobs \X (1..MaxFiles + MaxRows) :
     /\ i \in ItemsOf(j)
     /\ importJobs[j].items[i].status \in statuses
     /\ name \in RangeOf(TrimmedNames(importJobs[j].items[i].payload.tags))}

\* a step in which the entry the worker is at becomes failed
EntryFails ==
  /\ worker.pc \in {"image", "tagByName", "tagCreate", "create"}
  /\ CurItemAfter.status = "failed"

\* C30 as stated: no item row and no tag row exists on behalf of a failed
\* entry.  Failed entries have no item row, and every tag row that was not in
\* the catalog before the imports (any but Old) is named by an entry that is
\* completed or still being processed.
C30_FailedEntryLeavesNothing ==
  /\ \A j \in Jobs : \A i \in ItemsOf(j) :
       importJobs[j].items[i].status = "failed"
       => importJobs[j].items[i].itemId = NoItemId
  /\ \A k \in 1..Len(tagRows) :
       tagRows[k] # Old
       => NamedBy(tagRows[k], {"processing", "completed"}) # {}

\* C30 amended: a failed entry has no item row, and the step in which an
\* entry fails adds nothing to the catalog and takes nothing from it; the
\* catalog holds exactly one item row per completed entry.  Tag rows are
\* only ever added: those that the tag resolution of an entry created before
\* the entry failed remain, each named by an entry the worker has taken up.
C30_FailedEntryLeavesNoItem ==
  /\ [][EntryFails => catalog' = catalog /\ tagRows' = tagRows]_vars
  /\ [][/\ Len(tagRows') >= Len(tagRows)
        /\ SubSeq(tagRows', 1, Len(tagRows)) = tagRows
        /\ Len(catalog') >= Len(catalog)
        /\ SubSeq(catalog', 1, Len(catalog)) = catalog]_vars
  /\ [](\A j \in Jobs : \A i \in ItemsOf(j) :
          importJobs[j].items[i].status = "failed"
          => importJobs[j].items[i].itemId = NoItemId)
  /\ [](UNION {RowsOf(j) : j \in Jobs} = 1..Len(catalog))
  /\ [](\A k \in 1..Len(tagRows) :
          tagRows[k] # Old
          => NamedBy(tagRows[k], {"processing", "completed", "failed"}) # {})

\* an upload of one file tagged Beach has completed with its entry failed:
\* tag resolution created the tag, the item-create call threw, and the tag
\* row Beach stays in the catalog without any item row
C30_Witness ==
  /\ Len(importJobs) = 1
  /\ importJobs[1].status = "completed"
  /\ Len(importJobs[1].items) = 1
  /\ importJobs[1].items[1].status = "failed"
  /\ importJobs[1].items[1].error = PrismaError
  /\ tagRows = <<Old, Beach>>
  /\ catalog = <<>>
====
